---------------------------- MODULE Spec2Model ----------------------------
(***************************************************************************)
(* The BODACC day-range fetch (src/main/02_get_BODACC_by_day.py) as a      *)
(* state machine: main()'s loop over the days, _cleanup_day_parts,         *)
(* _fetch_day's pagination with its retry loop, _write_ndjson_part and      *)
(* _merge_day_parts, over a filesystem that outlives the process.  The      *)
(* process may be killed between any two steps and started again.           *)
(*                                                                         *)
(* Modelling choices:                                                      *)
(*  - a record is [cat, num, run]: its publicationavis, its numeroannonce  *)
(*    and the run that fetched it (history information, standing for the   *)
(*    bytes a later fetch of a changed upstream would differ in);           *)
(*  - the remote API holds, for every (day, category), the announcements   *)
(*    1..UpstreamSize(day, cat) and answers a request with status 429,     *)
(*    with a transient failure, or with the page the request asks for      *)
(*    (numeroannonce > cursor, ascending, at most per_page records);       *)
(*    under PayloadSpec a 2xx answer may also be malformed;                *)
(*  - a fragment is a file of the staging directory: its name, built as    *)
(*    _write_ndjson_part builds it, and its records; glob() selects by     *)
(*    the name and sorted() orders the names as strings, which MergeSpec   *)
(*    applies to many staged pages;                                        *)
(*  - local file operations succeed; under Spec the date range is the same  *)
(*    in every run (days 1..NumDays, all before today), under RangeSpec    *)
(*    the command line and the clock are drawn from bounded sets;          *)
(*  - the consolidated TMP json/csv written at the end of main() is not    *)
(*    modelled: its names never match a fragment's or a DayArtifact's.      *)
(*                                                                         *)
(* The filter stage (src/main/03_filter_BODACC_by_day.py) is a second      *)
(* state machine over its own directories (FilterSpec; StagesSpec adds the  *)
(* reads that raise, LinesSpec the lines that are not records, KillSpec    *)
(* the kill of the process, with _write_day_file in two steps), and its    *)
(* functions are applied to single inputs under MatchSpec, CollectSpec and *)
(* RegistrySpec.  LiveSpec is one fetch run under weak fairness of the     *)
(* steps of _fetch_day.  Each specification holds the variables of the     *)
(* others still.                                                           *)
(***************************************************************************)
EXTENDS Integers, Sequences, FiniteSets, TLC

\* ------------------------------------------------------------- bounds
NumDays == 3
PerPage == 2
MaxRetries == 2
MaxRuns == 2
DefaultDepth == 2
NumFilterDays == 2
MaxFileRecs == 2
ManyPages == 1000
MaxRows == 2
MaxLines == 2

\* ---------------------------------------------------------- constants
PUBLICATION_TYPES == <<"A", "B", "C">>

Days == 1..NumDays
NumCats == Len(PUBLICATION_TYPES)
\* A DayArtifact path: no file, or a file holding records.
Absent == [exists |-> FALSE, recs |-> <<>>]
File(recs) == [exists |-> TRUE, recs |-> recs]

VARIABLES
    frags,        \* staging area: set of fragment files [day, cat, idx, recs]
    artifact,     \* daily dir: day -> the DayArtifact file (or Absent)
    pc,           \* position of the process
    run,          \* number of the current process run
    day,          \* main(): loop variable day
    ci,           \* main(): index of publicationavis in PUBLICATION_TYPES
    last_numero,  \* _fetch_day: cursor
    page_idx,     \* _fetch_day: page index
    attempt,      \* _fetch_day: loop variable of range(max_retries)
    resp,         \* the response of the request in flight
    parts,        \* _merge_day_parts: part_files (sorted)
    mi,           \* _merge_day_parts: position in part_files
    requested,    \* history: days a request was issued for in this run
    skipped,      \* history: days skipped in this run
    mergeCalls,   \* history: day -> number of _merge_day_parts calls, all runs
    fetched,      \* history: categories _fetch_day was called for, this day
    abandoned,    \* history: categories abandoned after max_retries, this day
    keptFrags,    \* history: fragments present when their category was abandoned
    cleaned,      \* history: day -> fragments _cleanup_day_parts deleted, this run
    completedOnce,\* history: some run reached the end of main()
    today,        \* main(): dt.date.today()
    args,         \* main(): --start-date and --end-date (NoDate: not given)
    end_date,     \* main(): end_date after the adjustment
    slept,        \* history: the time.sleep() of the last step (0: none)
    bodies        \* the API: the kinds of 2xx bodies it sends

fetchVars == <<frags, artifact, pc, run, day, ci, last_numero, page_idx,
               attempt, resp, parts, mi, requested, skipped, mergeCalls,
               fetched, abandoned, keptFrags, cleaned, completedOnce, today,
               args, end_date, slept, bodies>>

\* The filter stage (03_filter_BODACC_by_day.py).
VARIABLES
    daily,        \* daily_output_dir: day -> DayArtifact (records of Pool)
    config,       \* the SIREN CSV and [keywords] topage_keywords
    filtered,     \* filtered_output_dir: day -> FilteredDayArtifact
    fpc,          \* where the filter's main() stands
    frun,         \* number of the filter run
    input_files,  \* main(): the days of the input files, sorted
    fi,           \* _filter_records: index of input_file in input_files
    existing,     \* _filter_records: existing
    startFiltered,\* history: filtered_output_dir when the run started
    processed,    \* history: the input files this run read
    failed        \* history: the input files whose reading raised, this run

filterVars == <<daily, config, filtered, fpc, frun, input_files, fi, existing,
                startFiltered, processed, failed>>

\* The matching functions of the filter stage, applied to one input.
VARIABLES
    probe,        \* the registre and the text of a record, a keyword line
    verdict       \* what _matched_sirens and _flag_keywords answered

matchVars == <<probe, verdict>>

vars == <<fetchVars, filterVars, matchVars>>

\* What only the start of main() reads or sets.
env == <<today, args, end_date, bodies>>

locals == <<ci, last_numero, page_idx, attempt, resp, parts, mi, slept>>
files == <<frags, artifact>>

NoResp == [kind |-> "none", recs |-> <<>>]

\* args.start_date / args.end_date is None.
NoDate == 0

\* ------------------------------------------------------ pure helpers
Max(a, b) == IF a >= b THEN a ELSE b
Min(a, b) == IF a <= b THEN a ELSE b

CatRank(c) == CHOOSE i \in 1..NumCats : PUBLICATION_TYPES[i] = c

\* The announcements the API holds for a (day, category): numbers 1..size.
\* Day 1 has a category of one full page plus a short one, one of exactly
\* one full page and an empty one; day 2 is empty; later days hold one
\* short page per category.
UpstreamSize(d, c) ==
    IF d = 1 THEN (CASE c = "A" -> PerPage + 1
                     [] c = "B" -> PerPage
                     [] OTHER   -> 0)
    ELSE IF d = 2 THEN 0
    ELSE 1

\* The page an API that honours the request returns: where numeroannonce >
\* last_numero, order_by numeroannonce, limit per_page.
ApiPage(d, c, cursor, limit, r) ==
    LET n == Min(limit, Max(0, UpstreamSize(d, c) - cursor))
    IN  [i \in 1..n |-> [cat |-> c, num |-> cursor + i, run |-> r]]

\* max(numero_values)
SeqMaxNum(recs) ==
    LET nums == {recs[i].num : i \in 1..Len(recs)}
    IN  CHOOSE m \in nums : \A x \in nums : x <= m

\* The characters of a fragment's file name, in code point order.
CodePoints ==
    <<".", "0", "1", "2", "3", "4", "5", "6", "7", "8", "9", "A", "B", "C",
      "_", "a", "b", "c", "d", "e", "j", "l", "n", "o", "p", "r", "s", "t",
      "u">>

Ord == [ch \in {CodePoints[i] : i \in 1..Len(CodePoints)} |->
           CHOOSE i \in 1..Len(CodePoints) : CodePoints[i] = ch]

\* str(n) of a natural number.
RECURSIVE Decimal(_)
Decimal(n) ==
    IF n < 10 THEN <<CodePoints[n + 2]>>
    ELSE Decimal(n \div 10) \o <<CodePoints[(n % 10) + 2]>>

\* The 0<w>d format: zeros on the left up to the width, never a cut.
RECURSIVE ZeroPad(_, _)
ZeroPad(s, w) == IF Len(s) >= w THEN s ELSE ZeroPad(<<"0">> \o s, w)

\* {page_idx:03d}
PageWidth == 3

\* {day:%Y%m%d}: eight digits.
DateWidth == 8

\* f"{day:%Y%m%d}": the days are numbered, their codes ascend with them.
DayCode(d) == ZeroPad(Decimal(d), DateWidth)

\* "_bodacc_update_part_"
PartInfix ==
    <<"_", "b", "o", "d", "a", "c", "c", "_", "u", "p", "d", "a", "t", "e",
      "_", "p", "a", "r", "t", "_">>

\* ".jsonl"
PartSuffix == <<".", "j", "s", "o", "n", "l">>

\* fnmatch of a name against the pattern: prefix, "*", suffix.
Matches(name, prefix, suffix) ==
    /\ Len(name) >= Len(prefix) + Len(suffix)
    /\ SubSeq(name, 1, Len(prefix)) = prefix
    /\ SubSeq(name, Len(name) - Len(suffix) + 1, Len(name)) = suffix

\* Mutant of DayParts: the pattern does not tell the day.
DayPartsAnyDay(fs, d) == {f \in fs : Matches(f.name, <<>>, PartSuffix)}

\* glob(f"{day:%Y%m%d}_bodacc_update_part_*.jsonl")
DayParts(fs, d) ==
    {f \in fs : Matches(f.name, DayCode(d) \o PartInfix, PartSuffix)}

\* Mutant of PartName: the name does not tell the category.
PartNameNoCategory(d, c, idx) ==
    DayCode(d) \o PartInfix \o ZeroPad(Decimal(idx), PageWidth) \o PartSuffix

\* f"{day:%Y%m%d}_bodacc_update_part_{publicationavis}_{page_idx:03d}.jsonl"
PartName(d, c, idx) ==
    DayCode(d) \o PartInfix \o <<c, "_">>
        \o ZeroPad(Decimal(idx), PageWidth) \o PartSuffix

\* A fragment file: its name and content, and who wrote it (history).
Fragment(d, c, idx, recs) ==
    [name |-> PartName(d, c, idx), day |-> d, cat |-> c, idx |-> idx,
     recs |-> recs]

\* a < b for two strings: the code points at the first difference, or the
\* shorter one when it is a prefix of the other.
LexLess(a, b) ==
    LET m == Min(Len(a), Len(b))
        k == CHOOSE i \in 1..(m + 1) :
                 /\ i > m \/ a[i] # b[i]
                 /\ \A j \in 1..(i - 1) : a[j] = b[j]
    IN  IF k > m THEN Len(a) < Len(b) ELSE Ord[a[k]] < Ord[b[k]]

\* A file of S to split S at.  Any file gives the same sorted sequence; one
\* in the middle of the page indexes keeps the recursion shallow.
Pivot(S) ==
    CHOOSE p \in S :
        /\ 2 * Cardinality({g \in S : g.idx < p.idx}) <= Cardinality(S)
        /\ 2 * Cardinality({g \in S : g.idx <= p.idx}) > Cardinality(S)

\* sorted(Path(tmp_dir).glob(...)): the paths of one directory in the order
\* of their names.
RECURSIVE SortParts(_)
SortParts(S) ==
    IF S = {} THEN <<>>
    ELSE LET p == Pivot(S)
             lower == {g \in S : LexLess(g.name, p.name)}
         IN  SortParts(lower) \o <<p>> \o SortParts(S \ (lower \cup {p}))

\* open(part_path, "w"): a file of the same name is replaced.
WritePart(fs, d, c, idx, recs) ==
    {f \in fs : f.name # PartName(d, c, idx)}
        \cup {Fragment(d, c, idx, recs)}

Range(s) == {s[i] : i \in 1..Len(s)}

\* ---------------------------------------------------------------- Init
\* The filter stage when only the fetch stage is looked at.
FilterIdle ==
    /\ daily = [d \in 1..NumFilterDays |-> Absent]
    /\ config = [csv |-> [state |-> "missing", rows |-> <<>>], kw |-> <<>>]
    /\ filtered = [d \in 1..NumFilterDays |-> Absent]
    /\ fpc = "idle"
    /\ frun = 1
    /\ input_files = <<>>
    /\ fi = 0
    /\ existing = {}
    /\ startFiltered = [d \in 1..NumFilterDays |-> Absent]
    /\ processed = {}
    /\ failed = {}

\* The matching functions when they are not looked at.
MatchIdle ==
    /\ probe = [registre |-> [t |-> "null", s |-> <<>>, l |-> <<>>],
                text |-> <<>>, line |-> <<>>]
    /\ verdict = [done |-> TRUE, matches |-> <<>>, tagged |-> FALSE]

InitLocals ==
    /\ artifact = [d \in Days |-> Absent]
    /\ run = 1
    /\ day = 1
    /\ end_date = NoDate
    /\ ci = 1
    /\ last_numero = 0
    /\ page_idx = 0
    /\ attempt = 0
    /\ resp = NoResp
    /\ parts = <<>>
    /\ mi = 0
    /\ slept = 0
    /\ requested = {}
    /\ skipped = {}
    /\ mergeCalls = [d \in Days |-> 0]
    /\ fetched = {}
    /\ abandoned = {}
    /\ keptFrags = {}
    /\ cleaned = [d \in Days |-> 0]
    /\ completedOnce = FALSE

InitProcess == InitLocals /\ pc = "start"

\* The fetch stage when only the filter stage is looked at.
FetchIdle ==
    /\ InitLocals
    /\ pc = "idle"
    /\ frags = {}
    /\ today = NumDays + 1
    /\ args = [start |-> 1, end |-> NumDays]
    /\ bodies = {"ok"}

\* The first run over empty directories, asked for days 1..NumDays, all past.
InitFetch ==
    /\ InitProcess
    /\ frags = {}
    /\ today = NumDays + 1
    /\ args = [start |-> 1, end |-> NumDays]
    /\ bodies = {"ok"}

Init == InitFetch /\ FilterIdle /\ MatchIdle

\* A fragment an earlier, killed run left in the staging directory.
StaleFragment ==
    Fragment(1, "A", 1, <<[cat |-> "A", num |-> 1, run |-> 0]>>)

\* One run with any command line: each date given or not, today being the
\* last day of the calendar or the day after it, the staging directory empty
\* or holding a stale fragment.
InitRange ==
    /\ InitProcess
    /\ frags \in {{}, {StaleFragment}}
    /\ today \in {NumDays, NumDays + 1}
    /\ bodies = {"ok"}
    /\ args \in [start : {NoDate} \cup Days, end : {NoDate} \cup Days]
    /\ FilterIdle
    /\ MatchIdle

ResetLocals ==
    /\ ci' = 1
    /\ last_numero' = 0
    /\ page_idx' = 0
    /\ attempt' = 0
    /\ resp' = NoResp
    /\ parts' = <<>>
    /\ mi' = 0
    /\ slept' = 0

\* for day in _date_range(start_date, end_date): the next day, or the end.
NextDay ==
    /\ ResetLocals
    /\ fetched' = {}
    /\ abandoned' = {}
    /\ IF day < end_date
       THEN /\ day' = day + 1
            /\ pc' = "check_day"
            /\ UNCHANGED completedOnce
       ELSE /\ day' = day
            /\ pc' = "done"
            /\ completedOnce' = TRUE

\* ------------------------------------------------------------- main()
\* yesterday = today - dt.timedelta(days=1)
Yesterday(t) == t - 1

\* start_date: the argument, or yesterday - (default_depth - 1) days.
StartDate(a, t) ==
    IF a.start # NoDate THEN a.start ELSE Yesterday(t) - (DefaultDepth - 1)

\* Mutant of ClampEnd: today itself is let through (> for >=).
ClampEndGT(e, t) == IF e > t THEN Yesterday(t) ELSE e

\* if end_date >= today: end_date = yesterday
ClampEnd(e, t) == IF e >= t THEN Yesterday(t) ELSE e

\* end_date: the argument, or yesterday; then the adjustment.
EndDate(a, t) == ClampEnd(IF a.end # NoDate THEN a.end ELSE Yesterday(t), t)

\* Mutant of RangeInvalid: the range is not checked.
RangeUnchecked(s, e) == FALSE

\* if start_date > end_date: raise ValueError
RangeInvalid(s, e) == s > e

\* The start of main(): the date window; an invalid one raises, which the
\* outer except turns into sys.exit(1); _date_range of an empty window
\* yields no day.
StartRun ==
    /\ pc = "start"
    /\ LET s == StartDate(args, today)
           e == EndDate(args, today)
       IN  IF RangeInvalid(s, e)
           THEN /\ pc' = "fatal"
                /\ UNCHANGED <<day, end_date, completedOnce>>
           ELSE /\ end_date' = e
                /\ IF s <= e
                   THEN /\ day' = s
                        /\ pc' = "check_day"
                        /\ UNCHANGED completedOnce
                   ELSE /\ day' = day
                        /\ pc' = "done"
                        /\ completedOnce' = TRUE
    /\ UNCHANGED <<files, run, locals, requested, skipped, mergeCalls, fetched,
                   abandoned, keptFrags, cleaned, today, args, bodies, filterVars,
                   matchVars>>

\* Mutant of SkipDay: the "continue" is missing, the day is fetched anyway.
SkipDayFallsThrough ==
    /\ skipped' = skipped \cup {day}
    /\ pc' = "cleanup"
    /\ UNCHANGED <<files, run, day, locals, requested, mergeCalls, fetched,
                   abandoned, keptFrags, cleaned, completedOnce>>

\* if os.path.exists(target_daily_file): ... continue
SkipDay ==
    /\ skipped' = skipped \cup {day}
    /\ NextDay
    /\ UNCHANGED <<files, run, requested, mergeCalls, keptFrags, cleaned>>

\* Mutant of ArtifactExists: an empty DayArtifact does not count.
ArtifactNonEmpty(a) == a.exists /\ a.recs # <<>>

\* os.path.exists(target_daily_file)
ArtifactExists(a) == a.exists

CheckDay ==
    /\ pc = "check_day"
    /\ UNCHANGED <<env, filterVars, matchVars>>
    /\ IF ArtifactExists(artifact[day])
       THEN SkipDay
       ELSE /\ pc' = "cleanup"
            /\ UNCHANGED <<files, run, day, locals, requested, skipped,
                           mergeCalls, fetched, abandoned, keptFrags,
                           cleaned, completedOnce>>

\* Mutant of CleanupResult: nothing is deleted.
CleanupNothing(fs, d) == fs

\* _cleanup_day_parts: every fragment of the day is unlinked.
CleanupResult(fs, d) == fs \ DayParts(fs, d)

\* _cleanup_day_parts(tmp_dir, day), then the first publicationavis.
CleanupDayParts ==
    /\ pc = "cleanup"
    /\ UNCHANGED <<env, filterVars, matchVars>>
    /\ frags' = CleanupResult(frags, day)
    /\ pc' = "request"
    /\ ResetLocals
    /\ fetched' = {PUBLICATION_TYPES[1]}
    /\ cleaned' = [cleaned EXCEPT ![day] = Cardinality(DayParts(frags, day))]
    /\ UNCHANGED <<artifact, run, day, requested, skipped, mergeCalls,
                   abandoned, keptFrags, completedOnce>>

\* ---------------------------------------------------------- _fetch_day
\* Mutant of EndFetch: the last publicationavis comes right after the first.
EndFetchSkipsCategory ==
    /\ last_numero' = 0
    /\ page_idx' = 0
    /\ attempt' = 0
    /\ resp' = NoResp
    /\ UNCHANGED <<parts, mi>>
    /\ IF ci < NumCats
       THEN /\ ci' = NumCats
            /\ fetched' = fetched \cup {PUBLICATION_TYPES[NumCats]}
            /\ pc' = "request"
       ELSE /\ ci' = ci
            /\ fetched' = fetched
            /\ pc' = "merge"

\* _fetch_day returns: the next publicationavis, or _merge_day_parts.
EndFetch ==
    /\ last_numero' = 0
    /\ page_idx' = 0
    /\ attempt' = 0
    /\ resp' = NoResp
    /\ UNCHANGED <<parts, mi>>
    /\ IF ci < NumCats
       THEN /\ ci' = ci + 1
            /\ fetched' = fetched \cup {PUBLICATION_TYPES[ci + 1]}
            /\ pc' = "request"
       ELSE /\ ci' = ci
            /\ fetched' = fetched
            /\ pc' = "merge"

\* The answers session.get can meet for the request in flight: a 429, a
\* network error or another non-2xx status ("error"), a 2xx whose body is not
\* JSON ("notjson"), a 2xx JSON document with neither a results nor a
\* records list ("nolist"), and the page of results ("ok").
Responses(d, c, cursor, r) ==
    {[kind |-> "429", recs |-> <<>>], [kind |-> "error", recs |-> <<>>]}
        \cup {a \in {[kind |-> "notjson", recs |-> <<>>],
                     [kind |-> "nolist", recs |-> <<>>],
                     [kind |-> "ok",
                      recs |-> ApiPage(d, c, cursor, PerPage, r)]} :
                 a.kind \in bodies}

\* raise_for_status() or response.json() raises.
Raises(a) == a.kind \in {"error", "notjson"}

\* _extract_records(payload): the unwrapped results, the records, or [] for
\* a document that carries neither list.
ExtractRecords(a) == IF a.kind = "ok" THEN a.recs ELSE <<>>

\* response = session.get(api_url, params=params, ...)
Request ==
    /\ pc = "request"
    /\ UNCHANGED <<env, filterVars, matchVars>>
    /\ attempt < MaxRetries
    /\ \E a \in Responses(day, PUBLICATION_TYPES[ci], last_numero, run) :
           resp' = a
    /\ requested' = requested \cup {day}
    /\ pc' = "response"
    /\ slept' = 0
    /\ UNCHANGED <<files, run, day, ci, last_numero, page_idx, attempt, parts,
                   mi, skipped, mergeCalls, fetched, abandoned, keptFrags,
                   cleaned, completedOnce>>

\* Mutant of Abandon: the fragments staged for the category are discarded.
AbandonDiscard ==
    /\ abandoned' = abandoned \cup {PUBLICATION_TYPES[ci]}
    /\ keptFrags' = keptFrags \cup
           {f \in frags : f.day = day /\ f.cat = PUBLICATION_TYPES[ci]}
    /\ frags' = {f \in frags :
                   ~(f.day = day /\ f.cat = PUBLICATION_TYPES[ci])}
    /\ EndFetch
    /\ UNCHANGED <<artifact, run, day, requested, skipped, mergeCalls, cleaned,
                   completedOnce>>

\* Mutant of Abandon: the failure ends the day's category loop.
AbandonSkipsRest ==
    /\ abandoned' = abandoned \cup {PUBLICATION_TYPES[ci]}
    /\ keptFrags' = keptFrags \cup
           {f \in frags : f.day = day /\ f.cat = PUBLICATION_TYPES[ci]}
    /\ last_numero' = 0
    /\ page_idx' = 0
    /\ attempt' = 0
    /\ resp' = NoResp
    /\ pc' = "merge"
    /\ UNCHANGED <<files, run, day, ci, parts, mi, fetched, requested, skipped,
                   mergeCalls, cleaned, completedOnce>>

\* Mutant of Abandon: the DayArtifacts of the earlier days are rolled back.
AbandonRollsBack ==
    /\ abandoned' = abandoned \cup {PUBLICATION_TYPES[ci]}
    /\ keptFrags' = keptFrags \cup
           {f \in frags : f.day = day /\ f.cat = PUBLICATION_TYPES[ci]}
    /\ artifact' = [d \in Days |-> IF d < day THEN Absent ELSE artifact[d]]
    /\ EndFetch
    /\ UNCHANGED <<frags, run, day, requested, skipped, mergeCalls, cleaned,
                   completedOnce>>

\* for ... else: "Abandon des appels API", break, return all_records.
Abandon ==
    /\ abandoned' = abandoned \cup {PUBLICATION_TYPES[ci]}
    /\ keptFrags' = keptFrags \cup
           {f \in frags : f.day = day /\ f.cat = PUBLICATION_TYPES[ci]}
    /\ EndFetch
    /\ UNCHANGED <<files, run, day, requested, skipped, mergeCalls, cleaned,
                   completedOnce>>

\* Mutant of NextAttempt: the retry starts the pagination over.
NextAttemptRewinds ==
    IF attempt + 1 < MaxRetries
    THEN /\ attempt' = attempt + 1
         /\ resp' = NoResp
         /\ pc' = "request"
         /\ last_numero' = 0
         /\ UNCHANGED <<files, run, day, ci, page_idx, parts, mi,
                        requested, skipped, mergeCalls, fetched, abandoned,
                        keptFrags, cleaned, completedOnce>>
    ELSE Abandon

\* Mutant of NextAttempt: the failed attempt is not counted.
NextAttemptNoCount ==
    /\ attempt' = attempt
    /\ resp' = NoResp
    /\ pc' = "request"
    /\ UNCHANGED <<files, run, day, ci, last_numero, page_idx, parts, mi,
                   requested, skipped, mergeCalls, fetched, abandoned,
                   keptFrags, cleaned, completedOnce>>

\* The next iteration of "for attempt in range(max_retries)", or its else.
NextAttempt ==
    IF attempt + 1 < MaxRetries
    THEN /\ attempt' = attempt + 1
         /\ resp' = NoResp
         /\ pc' = "request"
         /\ UNCHANGED <<files, run, day, ci, last_numero, page_idx, parts, mi,
                        requested, skipped, mergeCalls, fetched, abandoned,
                        keptFrags, cleaned, completedOnce>>
    ELSE Abandon

\* general.get("backoff_base", 1)
BackoffBase == 1

\* general.get("too_many_requests_timeout_sec", 300)
TooManyRequestsTimeout == 300

\* Mutant of WaitTime: the same pause after every failure.
WaitTimeFlat(k) == BackoffBase

\* wait_time = backoff_base * (2**attempt)
WaitTime(k) == BackoffBase * 2^k

\* if response.status_code == 429: time.sleep(...); continue
Handle429 ==
    /\ pc = "response"
    /\ UNCHANGED <<env, filterVars, matchVars>>
    /\ resp.kind = "429"
    /\ slept' = TooManyRequestsTimeout
    /\ NextAttempt

\* except Exception: time.sleep(backoff_base * 2**attempt)
HandleError ==
    /\ pc = "response"
    /\ UNCHANGED <<env, filterVars, matchVars>>
    /\ Raises(resp)
    /\ slept' = WaitTime(attempt)
    /\ NextAttempt

\* Mutant of NewCursor: the cursor is not advanced.
NewCursorStale(recs, cursor) == cursor

\* last_numero = max(max(numero_values), last_numero)
NewCursor(recs, cursor) == Max(SeqMaxNum(recs), cursor)

\* Mutant of StagePage: a full page ends the pagination too (<= for <).
StagePageLE ==
    /\ frags' = WritePart(frags, day, PUBLICATION_TYPES[ci], page_idx + 1,
                          resp.recs)
    /\ IF Len(resp.recs) <= PerPage
       THEN EndFetch
       ELSE /\ page_idx' = page_idx + 1
            /\ last_numero' = NewCursor(resp.recs, last_numero)
            /\ attempt' = 0
            /\ resp' = NoResp
            /\ pc' = "request"
            /\ UNCHANGED <<ci, parts, mi, fetched>>

\* Mutant of StagePage: the attempts spent on a page count for the next one.
StagePageKeepsAttempt ==
    /\ frags' = WritePart(frags, day, PUBLICATION_TYPES[ci], page_idx + 1,
                          resp.recs)
    /\ IF Len(resp.recs) < PerPage
       THEN EndFetch
       ELSE /\ page_idx' = page_idx + 1
            /\ last_numero' = NewCursor(resp.recs, last_numero)
            /\ attempt' = attempt
            /\ resp' = NoResp
            /\ pc' = "request"
            /\ UNCHANGED <<ci, parts, mi, fetched>>

\* page_idx += 1; _write_ndjson_part(...); the cursor; then
\* "if len(records) < per_page: return all_records", else break.
StagePage ==
    /\ frags' = WritePart(frags, day, PUBLICATION_TYPES[ci], page_idx + 1,
                          resp.recs)
    /\ IF Len(resp.recs) < PerPage
       THEN EndFetch
       ELSE /\ page_idx' = page_idx + 1
            /\ last_numero' = NewCursor(resp.recs, last_numero)
            /\ attempt' = 0
            /\ resp' = NoResp
            /\ pc' = "request"
            /\ UNCHANGED <<ci, parts, mi, fetched>>

\* A 2xx answer: "if not records: return all_records", else stage the page.
HandleOk ==
    /\ pc = "response"
    /\ UNCHANGED <<env, filterVars, matchVars>>
    /\ resp.kind \in {"ok", "nolist"}
    /\ IF ExtractRecords(resp) = <<>>
       THEN /\ EndFetch
            /\ UNCHANGED frags
       ELSE StagePage
    /\ UNCHANGED <<artifact, run, day, requested, skipped, mergeCalls,
                   abandoned, keptFrags, cleaned, completedOnce, slept>>

\* ---------------------------------------------------- _merge_day_parts
\* Mutant of ReadPart: only the first line of the fragment is read.
ReadPartFirstLine(fs, p) ==
    SubSeq((CHOOSE f \in fs : f.name = p.name).recs, 1, 1)

\* part.read_text(): the content of the fragment file of that name.
ReadPart(fs, p) ==
    (CHOOSE f \in fs : f.name = p.name).recs

\* Mutant of TouchArtifact: nothing is created when there is no fragment.
TouchNothing(a) == a

\* Path(target_path).touch(): creates an empty file, keeps an existing one.
TouchArtifact(a) == IF a.exists THEN a ELSE File(<<>>)

\* part_files = sorted(glob); no fragment: Path(target).touch();
\* otherwise open(target_path, "w").
MergeOpen ==
    /\ pc = "merge"
    /\ UNCHANGED <<env, filterVars, matchVars>>
    /\ mergeCalls' = [mergeCalls EXCEPT ![day] = @ + 1]
    /\ LET part_files == SortParts(DayParts(frags, day))
       IN  IF part_files = <<>>
           THEN /\ artifact' = [artifact EXCEPT ![day] = TouchArtifact(@)]
                /\ NextDay
           ELSE /\ artifact' = [artifact EXCEPT ![day] = File(<<>>)]
                /\ parts' = part_files
                /\ mi' = 1
                /\ pc' = "merge_write"
                /\ slept' = 0
                /\ UNCHANGED <<day, ci, last_numero, page_idx, attempt, resp,
                               fetched, abandoned, completedOnce>>
    /\ UNCHANGED <<frags, run, requested, skipped, keptFrags, cleaned>>

\* merged.write(part.read_text(...)); after the last part the file is closed.
MergeWrite ==
    /\ pc = "merge_write"
    /\ UNCHANGED <<env, filterVars, matchVars>>
    /\ artifact' = [artifact EXCEPT ![day] =
                       File(@.recs \o ReadPart(frags, parts[mi]))]
    /\ IF mi < Len(parts)
       THEN /\ mi' = mi + 1
            /\ pc' = "merge_write"
       ELSE /\ mi' = 1
            /\ pc' = "merge_unlink"
    /\ UNCHANGED <<frags, run, day, ci, last_numero, page_idx, attempt, resp,
                   parts, requested, skipped, mergeCalls, fetched, abandoned,
                   keptFrags, cleaned, completedOnce, slept>>

\* for part in part_files: part.unlink(); after the last one merge returns.
MergeUnlink ==
    /\ pc = "merge_unlink"
    /\ UNCHANGED <<env, filterVars, matchVars>>
    /\ frags' = {f \in frags : f.name # parts[mi].name}
    /\ IF mi < Len(parts)
       THEN /\ mi' = mi + 1
            /\ pc' = "merge_unlink"
            /\ UNCHANGED <<day, ci, last_numero, page_idx, attempt, resp,
                           parts, fetched, abandoned, completedOnce, slept>>
       ELSE NextDay
    /\ UNCHANGED <<artifact, run, requested, skipped, mergeCalls, keptFrags,
                   cleaned>>

\* ------------------------------------------------- the process's life
Running == pc \notin {"done", "dead", "fatal", "idle"}

\* The process is killed: its memory is lost, the files stay.
Crash ==
    /\ Running
    /\ pc' = "dead"
    /\ day' = 1
    /\ ResetLocals
    /\ requested' = {}
    /\ skipped' = {}
    /\ fetched' = {}
    /\ abandoned' = {}
    /\ keptFrags' = {}
    /\ cleaned' = [d \in Days |-> 0]
    /\ UNCHANGED <<files, run, mergeCalls, completedOnce, env, filterVars,
                   matchVars>>

\* main() is started again over the same directories and the same range.
Restart ==
    /\ pc \in {"done", "dead", "fatal"}
    /\ run < MaxRuns
    /\ run' = run + 1
    /\ pc' = "start"
    /\ day' = 1
    /\ ResetLocals
    /\ requested' = {}
    /\ skipped' = {}
    /\ fetched' = {}
    /\ abandoned' = {}
    /\ keptFrags' = {}
    /\ cleaned' = [d \in Days |-> 0]
    /\ UNCHANGED <<files, mergeCalls, completedOnce, env, filterVars,
                   matchVars>>

Next ==
    \/ StartRun
    \/ CheckDay
    \/ CleanupDayParts
    \/ Request
    \/ Handle429
    \/ HandleError
    \/ HandleOk
    \/ MergeOpen
    \/ MergeWrite
    \/ MergeUnlink
    \/ Crash
    \/ Restart

Spec == Init /\ [][Next]_vars

\* The first run over empty directories, against an API whose 2xx answers
\* may also be malformed.
InitPayload ==
    /\ InitProcess
    /\ frags = {}
    /\ today = NumDays + 1
    /\ args = [start |-> 1, end |-> NumDays]
    /\ bodies = {"ok", "notjson", "nolist"}
    /\ FilterIdle
    /\ MatchIdle

\* One run of main(), never killed.
NextRun ==
    \/ StartRun
    \/ CheckDay
    \/ CleanupDayParts
    \/ Request
    \/ Handle429
    \/ HandleError
    \/ HandleOk
    \/ MergeOpen
    \/ MergeWrite
    \/ MergeUnlink

RangeSpec == InitRange /\ [][NextRun]_vars

PayloadSpec == InitPayload /\ [][NextRun]_vars

\* One run that is not killed: inside _fetch_day the interpreter goes on to
\* its next step as long as there is one (session.get answers or raises
\* within its timeout, time.sleep ends).
LiveSpec ==
    /\ InitPayload
    /\ [][NextRun]_vars
    /\ WF_vars(Request)
    /\ WF_vars(Handle429)
    /\ WF_vars(HandleError)
    /\ WF_vars(HandleOk)

\* The k-th full page of a category whose announcements are numbered from 1.
FullPage(c, k, r) ==
    [i \in 1..PerPage |-> [cat |-> c, num |-> (k - 1) * PerPage + i, run |-> r]]

\* The staging directory once _fetch_day has returned for the categories of
\* day 1, the first having given n full pages, the second a single one.
StagedPages(n) ==
    {Fragment(1, PUBLICATION_TYPES[1], k, FullPage(PUBLICATION_TYPES[1], k, 1)) :
         k \in 1..n}
        \cup {Fragment(1, PUBLICATION_TYPES[2], 1,
                       FullPage(PUBLICATION_TYPES[2], 1, 1))}

\* main() is about to call _merge_day_parts for day 1 of a first run, a few
\* or many pages being staged.
InitMerge ==
    /\ pc = "merge"
    /\ \E n \in {2, ManyPages} : frags = StagedPages(n)
    /\ artifact = [d \in Days |-> Absent]
    /\ run = 1
    /\ day = 1
    /\ end_date = NumDays
    /\ ci = NumCats
    /\ last_numero = 0
    /\ page_idx = 0
    /\ attempt = 0
    /\ resp = NoResp
    /\ parts = <<>>
    /\ mi = 0
    /\ slept = 0
    /\ requested = {1}
    /\ skipped = {}
    /\ mergeCalls = [d \in Days |-> 0]
    /\ fetched = {PUBLICATION_TYPES[i] : i \in 1..NumCats}
    /\ abandoned = {}
    /\ keptFrags = {}
    /\ cleaned = [d \in Days |-> 0]
    /\ completedOnce = FALSE
    /\ today = NumDays + 1
    /\ args = [start |-> 1, end |-> NumDays]
    /\ bodies = {"ok"}
    /\ FilterIdle
    /\ MatchIdle

NextMerge ==
    \/ MergeOpen
    \/ MergeWrite
    \/ MergeUnlink

\* One call of _merge_day_parts.
MergeSpec == InitMerge /\ [][NextMerge]_vars

\* ====================================================================
\* The filter stage (03_filter_BODACC_by_day.py).  A string is a sequence
\* of characters; an accented letter is one character ("e+acute"), which
\* NFD decomposes into its base letter and a combining mark ("+acute").
\* A record of a DayArtifact is named by its index in the catalogue Pool.
\* The input files are the ones the glob of daily_output_dir finds
\* (--input-jsonl is not given), and no run is killed.
\* ====================================================================
FilterDays == 1..NumFilterDays

\* ------------------------------------------------------------ strings
IsDigit(ch) == ch \in {"0", "1", "2", "3", "4", "5", "6", "7", "8", "9"}

\* Mutant of DigitsOnly: every character is kept.
DigitsKept(s) == s

\* "".join(ch for ch in value if ch.isdigit())
DigitsOnly(s) == SelectSeq(s, IsDigit)

IsSpace(ch) == ch = " "

RECURSIVE LStrip(_)
LStrip(s) == IF s # <<>> /\ IsSpace(Head(s)) THEN LStrip(Tail(s)) ELSE s

RECURSIVE RStrip(_)
RStrip(s) ==
    IF s # <<>> /\ IsSpace(s[Len(s)]) THEN RStrip(SubSeq(s, 1, Len(s) - 1))
    ELSE s

\* str.strip()
Strip(s) == RStrip(LStrip(s))

UpperCase == <<"A", "B", "C", "D", "E", "F", "G", "H", "I", "J", "K", "L", "M",
               "N", "O", "P", "Q", "R", "S", "T", "U", "V", "W", "X", "Y", "Z",
               "E+acute", "O+circ">>
LowerCase == <<"a", "b", "c", "d", "e", "f", "g", "h", "i", "j", "k", "l", "m",
               "n", "o", "p", "q", "r", "s", "t", "u", "v", "w", "x", "y", "z",
               "e+acute", "o+circ">>

LowerChar(ch) ==
    IF \E i \in 1..Len(UpperCase) : UpperCase[i] = ch
    THEN LowerCase[CHOOSE i \in 1..Len(UpperCase) : UpperCase[i] = ch]
    ELSE ch

\* str.lower()
Lower(s) == [i \in 1..Len(s) |-> LowerChar(s[i])]

\* unicodedata.normalize("NFD", c) of one character.
Decompose(ch) ==
    CASE ch = "e+acute" -> <<"e", "+acute">>
      [] ch = "E+acute" -> <<"E", "+acute">>
      [] ch = "o+circ"  -> <<"o", "+circ">>
      [] ch = "O+circ"  -> <<"O", "+circ">>
      [] OTHER          -> <<ch>>

RECURSIVE NFD(_)
NFD(s) == IF s = <<>> THEN <<>> ELSE Decompose(Head(s)) \o NFD(Tail(s))

\* unicodedata.category(c) == "Mn"
IsMn(ch) == ch \in {"+acute", "+circ"}

NotMn(ch) == ~IsMn(ch)

\* _normalize_text: lower(), then NFD without the combining marks.
NormalizeText(s) == SelectSeq(NFD(Lower(s)), NotMn)

\* keyword in content
Contains(sub, s) ==
    \E i \in 0..(Len(s) - Len(sub)) : SubSeq(s, i + 1, i + Len(sub)) = sub

RECURSIVE Join(_, _)
\* sep.join(parts)
Join(pieces, sep) ==
    IF pieces = <<>> THEN <<>>
    ELSE IF Len(pieces) = 1 THEN pieces[1]
    ELSE pieces[1] \o sep \o Join(Tail(pieces), sep)

\* --------------------------------------------------------- JSON values
JNull == [t |-> "null", s |-> <<>>, l |-> <<>>]
JStr(s) == [t |-> "str", s |-> s, l |-> <<>>]
JList(l) == [t |-> "list", s |-> <<>>, l |-> l]
\* A dict: its keys (one character each) and its values, in its order.
JDict(keys, values) == [t |-> "dict", s |-> keys, l |-> values]
\* A number or a boolean, with its JSON text.
JNum(digits) == [t |-> "num", s |-> digits, l |-> <<>>]
JBool(text) == [t |-> "bool", s |-> text, l |-> <<>>]

\* A dateparution value: a string in one of the formats, or not a string.
DateStr(fmt, d) == [isstr |-> TRUE, fmt |-> fmt, d |-> d]
DateNull == [isstr |-> FALSE, fmt |-> "", d |-> 0]

\* _parse_day found no format.
NoDay == 0

\* _parse_day: the first of the three formats that parses, as YYYYMMDD.
ParseDay(v) ==
    IF v.fmt \in {"%Y-%m-%d", "%d/%m/%Y", "%Y%m%d"} THEN v.d ELSE NoDay

\* ------------------------------------------------------ configuration
DEFAULT_TOPAGE_KEYWORDS ==
    <<<<"s", "a", "u", "v", "e", "g", "a", "r", "d", "e">>,
      <<"r", "e", "d", "r", "e", "s", "s", "e", "m", "e", "n", "t", " ", "j",
      "u", "d", "i", "c", "i", "a", "i", "r", "e">>,
      <<"l", "i", "q", "u", "i", "d", "a", "t", "i", "o", "n", " ", "j", "u",
      "d", "i", "c", "i", "a", "i", "r", "e">>,
      <<"r", "a", "d", "i", "a", "t", "i", "o", "n">>,
      <<"c", "l", "o", "t", "u", "r", "e", " ", "p", "o", "u", "r", " ", "i",
      "n", "s", "u", "f", "f", "i", "s", "a", "n", "c", "e", " ", "d", "'",
      "a", "c", "t", "i", "f", "s">>>>

TEXT_COLUMNS_CANDIDATES == <<"texte", "text", "objet", "description", "resume">>

\* The fields _should_tag_topage reads, in its order.
TagFields ==
    TEXT_COLUMNS_CANDIDATES
        \o <<"familleavis_lib", "typeavis_lib", "jugement",
             "modificationsgenerales", "divers">>

\* _read_keywords: the non-blank lines, stripped and lower-cased.
ReadKeywords(lines) ==
    LET NonBlank(line) == Strip(line) # <<>>
        kept == SelectSeq(lines, NonBlank)
    IN  [i \in 1..Len(kept) |-> Lower(Strip(kept[i]))]

\* _read_keywords(config, "topage_keywords") or DEFAULT_TOPAGE_KEYWORDS
TopageKeywords(lines) ==
    IF ReadKeywords(lines) # <<>> THEN ReadKeywords(lines)
    ELSE DEFAULT_TOPAGE_KEYWORDS

\* ----------------------------------------------------------- registry
SirenLen == 9

Siren1 == <<"1", "2", "3", "4", "5", "6", "7", "8", "9">>
Siren2 == <<"9", "8", "7", "6", "5", "4", "3", "2", "1">>
Siren3 == <<"1", "1", "1", "2", "2", "2", "3", "3", "3">>

\* A row of the SIREN CSV: the columns _load_sirens_with_info reads.
CsvRow(code, ccpma, cpcea, agri) ==
    [CODE_SIREN |-> code, MATRICULE_PICRIS_CCPMA |-> ccpma,
     MATRICULE_PICRIS_CPCEA |-> cpcea, MATRICULE_PICRIS_AGRI |-> agri]

\* The SIREN CSV: missing, unreadable (the read raises), or its rows.
CsvMissing == [state |-> "missing", rows |-> <<>>]
CsvUnreadable == [state |-> "unreadable", rows |-> <<>>]
CsvGood ==
    [state |-> "ok",
     rows |-> <<CsvRow(<<" ", "1", "2", "3", "4", "5", "6", "7", "8", "9">>,
                       <<"C", "0">>, <<"P", "0">>, <<"A", "0">>),
                CsvRow(<<"1", "2", "3", "4", "5", "6", "7", "8">>,
                       <<"C", "8">>, <<"P", "8">>, <<"A", "8">>),
                CsvRow(<<"1", "2", "3", "-", "4", "5", "6", "-", "7", "8",
                         "9">>,
                       <<" ", "C", "1">>, <<"P", "1", " ">>, <<"A", "1">>),
                CsvRow(Siren3, <<"C", "3">>, <<>>, <<"A", "3">>)>>]
CsvNoValidRow ==
    [state |-> "ok",
     rows |-> <<CsvRow(<<"1", "2", "3", "4", "5", "6", "7", "8">>,
                       <<"C", "8">>, <<"P", "8">>, <<"A", "8">>),
                CsvRow(<<>>, <<"C", "9">>, <<"P", "9">>, <<"A", "9">>)>>]

\* csv.DictReader gives a row that is shorter than the header the value None
\* (restval) for each column it lacks.
RestVal == <<"None">>

\* The three columns kept for a SIREN.
InfoColumns(row) ==
    {row.MATRICULE_PICRIS_CCPMA, row.MATRICULE_PICRIS_CPCEA,
     row.MATRICULE_PICRIS_AGRI}

\* (row.get("CODE_SIREN") or "").strip()
RawValue(row) == IF row.CODE_SIREN = RestVal THEN <<>>
                 ELSE Strip(row.CODE_SIREN)

\* _load_sirens_with_info: {} for a missing or unreadable file; otherwise the
\* rows whose CODE_SIREN has nine digits, the last row of a SIREN winning;
\* None.strip() for a column that such a row lacks raises, and the except
\* clause returns {}.
LoadSirensWithInfo(file) ==
    IF file.state # "ok" THEN <<>>
    ELSE LET Valid(i) == Len(DigitsOnly(RawValue(file.rows[i]))) = SirenLen
             Key(i) == DigitsOnly(RawValue(file.rows[i]))
             keys == {Key(i) : i \in {j \in 1..Len(file.rows) : Valid(j)}}
             Last(k) == CHOOSE i \in 1..Len(file.rows) :
                            /\ Valid(i) /\ Key(i) = k
                            /\ \A j \in (i + 1)..Len(file.rows) :
                                  ~(Valid(j) /\ Key(j) = k)
         IN  IF \E i \in 1..Len(file.rows) :
                    Valid(i) /\ RestVal \in InfoColumns(file.rows[i])
             THEN <<>>
             ELSE [k \in keys |->
                      [MATRICULE_PICRIS_CCPMA |->
                           Strip(file.rows[Last(k)].MATRICULE_PICRIS_CCPMA),
                       MATRICULE_PICRIS_CPCEA |->
                           Strip(file.rows[Last(k)].MATRICULE_PICRIS_CPCEA),
                       MATRICULE_PICRIS_AGRI |->
                           Strip(file.rows[Last(k)].MATRICULE_PICRIS_AGRI)]]

\* ------------------------------------------------------------ records
Field(name, value) == [name |-> name, value |-> value]

Record(date, registre, fields) ==
    [dateparution |-> date, registre |-> registre, fields |-> fields]

\* The catalogue of records a DayArtifact may hold.
Pool ==
    << \* 1: day 1, known SIREN written with spaces, keyword in upper case
       Record(DateStr("%Y-%m-%d", 1), JStr(<<"1", "2", "3", " ", "4", "5", "6", " ",
                                    "7", "8", "9">>),
              <<Field("texte", JStr(<<"A", "v", "i", "s", " ", "d", "e", " ",
                                  "R", "A", "D", "I", "A", "T", "I", "O",
                                  "N">>))>>),
       \* 2: day 2, a list of an unknown SIREN and two known ones, the one
       \* of the later CSV row first; accented text in a list
       Record(DateStr("%d/%m/%Y", 2),
              JList(<<JStr(<<"9", "8", "7", "6", "5", "4", "3", "2", "1">>),
                      JStr(<<"S", "I", "R", "E", "N", ":", "1", "1", "1", "2",
                           "2", "2", "3", "3", "3">>),
                      JStr(<<"1", "2", "3", "4", "5", "6", "7", "8", "9">>)>>),
              <<Field("objet",
                      JList(<<JStr(<<"P", "r", "o", "c", "e+acute", "d", "u", "r",
                              "e">>),
                              JStr(<<"d", "e", " ", "S", "A", "U", "V", "E", "G",
                              "A", "R", "D", "E">>)>>))>>),
       \* 3: day 2, known SIREN, keyword only in a field that is not read
       Record(DateStr("%Y%m%d", 2), JStr(<<"1", "2", "3", "4", "5", "6", "7", "8", "9">>),
              <<Field("commercant", JStr(<<"r", "a", "d", "i", "a", "t", "i",
                                        "o", "n">>)),
                Field("texte", JStr(<<"V", "e", "n", "t", "e">>))>>),
       \* 4: day 1, unknown SIREN, keyword in the text
       Record(DateStr("%Y-%m-%d", 1), JStr(<<"9", "8", "7", "6", "5", "4", "3", "2", "1">>),
              <<Field("description", JStr(<<"L", "i", "q", "u", "i", "d", "a",
                                         "t", "i", "o", "n", " ", "j", "u",
                                         "d", "i", "c", "i", "a", "i", "r",
                                         "e">>))>>),
       \* 5: a date no format parses, known SIREN, keyword in the text
       Record(DateStr("other", 1), JStr(<<"1", "2", "3", "4", "5", "6", "7", "8", "9">>),
              <<Field("texte", JStr(<<"r", "a", "d", "i", "a", "t", "i", "o",
                                   "n">>))>>) >>

PoolIds == 1..Len(Pool)

\* _clean_registre_values: the digits of every string value that has some.
CleanRegistreValues(values) ==
    LET IsStrWithDigits(v) == v.t = "str" /\ DigitsOnly(v.s) # <<>>
        strs == SelectSeq(values, IsStrWithDigits)
    IN  [i \in 1..Len(strs) |-> DigitsOnly(strs[i].s)]

\* _matched_sirens: the cleaned registre values that are keys of the registry.
MatchedSirens(record, sirens) ==
    LET rv == record.registre
        InSirens(v) == v \in sirens
    IN  IF rv.t = "null" \/ (rv.t = "str" /\ rv.s = <<>>)
           \/ (rv.t = "list" /\ rv.l = <<>>)
        THEN <<>>
        ELSE IF rv.t = "str"
        THEN SelectSeq(CleanRegistreValues(<<rv>>), InSirens)
        ELSE IF rv.t = "list"
        THEN SelectSeq(CleanRegistreValues(rv.l), InSirens)
        ELSE <<>>

\* The characters of a string inside a JSON string literal.
RECURSIVE Escape(_)
Escape(s) ==
    IF s = <<>> THEN <<>>
    ELSE (IF Head(s) \in {"\"", "\\"} THEN <<"\\", Head(s)>> ELSE <<Head(s)>>)
             \o Escape(Tail(s))

\* json.dumps(v): the JSON text of a value.
RECURSIVE Dumps(_)
Dumps(v) ==
    LET Item(i) == IF v.t = "dict"
                   THEN <<"\"", v.s[i], "\"", ":", " ">> \o Dumps(v.l[i])
                   ELSE Dumps(v.l[i])
        Items == [i \in 1..Len(v.l) |-> Item(i)]
    IN  CASE v.t = "null" -> <<"n", "u", "l", "l">>
          [] v.t \in {"num", "bool"} -> v.s
          [] v.t = "str" -> <<"\"">> \o Escape(v.s) \o <<"\"">>
          [] v.t = "list" -> <<"[">> \o Join(Items, <<",", " ">>) \o <<"]">>
          [] v.t = "dict" -> <<"{">> \o Join(Items, <<",", " ">>) \o <<"}">>

\* Plain values a field of a record may hold.
JsonAtoms ==
    {JStr(<<"r", "a", "d", "i", "a", "t", "i", "o", "n">>),
     JStr(<<"V", "e", "n", "t", "e">>),
     JStr(<<"1", "2", "3">>),
     JNum(<<"1", "2", "3">>),
     JBool(<<"t", "r", "u", "e">>),
     JNull}

\* Lists and dicts of them.
JsonContainers ==
    {JList(<<>>)}
        \cup {JList(<<a, b>>) : a, b \in JsonAtoms}
        \cup {JDict(<<"a", "b">>, <<a, b>>) : a, b \in JsonAtoms}

\* Strings that hold the JSON text of a value.
JsonEncoded == {JStr(Dumps(v)) : v \in JsonContainers \cup JsonAtoms}

\* The values the JSON texts at hand stand for.
JsonValues == JsonAtoms \cup JsonContainers \cup JsonEncoded

JsonTexts == {Dumps(v) : v \in JsonValues}

\* json.loads(s) succeeds: s is the JSON text of a value.
Parses(s) == s \in JsonTexts

\* json.loads(s): the value s is the JSON text of.
Loads(s) == CHOOSE v \in JsonValues : Dumps(v) = s

\* Mutant of DeepCollectText: a string is never decoded.
RECURSIVE DeepCollectTextPlain(_)
DeepCollectTextPlain(obj) ==
    IF obj.t = "str" THEN <<obj.s>>
    ELSE IF obj.t \in {"dict", "list"}
    THEN IF obj.l = <<>> THEN <<>>
         ELSE DeepCollectTextPlain(Head(obj.l))
                  \o DeepCollectTextPlain(JList(Tail(obj.l)))
    ELSE <<>>

RECURSIVE DeepCollectText(_)
\* _deep_collect_text: for a dict its values, for a list its elements, in
\* order; for a string the string, then what json.loads of it holds when it
\* parses; nothing for any other value.
DeepCollectText(obj) ==
    IF obj.t = "str"
    THEN <<obj.s>> \o (IF Parses(obj.s) THEN DeepCollectText(Loads(obj.s))
                       ELSE <<>>)
    ELSE IF obj.t \in {"dict", "list"}
    THEN IF obj.l = <<>> THEN <<>>
         ELSE DeepCollectText(Head(obj.l))
                  \o DeepCollectText(JList(Tail(obj.l)))
    ELSE <<>>

RECURSIVE CollectFields(_, _)
\* text_parts of _should_tag_topage over the fields names, in their order.
CollectFields(record, names) ==
    IF names = <<>> THEN <<>>
    ELSE LET here == {i \in 1..Len(record.fields) :
                          record.fields[i].name = Head(names)}
             first == IF here = {} THEN <<>>
                      ELSE DeepCollectText(
                               record.fields[CHOOSE i \in here : TRUE].value)
         IN  first \o CollectFields(record, Tail(names))

\* _flag_keywords
FlagKeywords(text, keywords) ==
    IF text = <<>> THEN FALSE
    ELSE \E i \in 1..Len(keywords) : Contains(keywords[i], NormalizeText(text))

\* _should_tag_topage
ShouldTagTopage(record, keywords) ==
    IF keywords = <<>> THEN FALSE
    ELSE FlagKeywords(Join(CollectFields(record, TagFields), <<" ">>), keywords)

\* The day of a record's dateparution, NoDay when it is not a string or
\* no format parses it.
Dated(record) ==
    IF record.dateparution.isstr THEN ParseDay(record.dateparution) ELSE NoDay

\* Mutant of Keeps: a SIREN match is enough.
KeepsOnSiren(record, info, keywords) ==
    MatchedSirens(record, DOMAIN info) # <<>>

\* The two tests past seen_per_day.add: a SIREN matches, a keyword tags.
Keeps(record, info, keywords) ==
    /\ MatchedSirens(record, DOMAIN info) # <<>>
    /\ ShouldTagTopage(record, keywords)

\* The record with the tag and the matricules of the registry entry e.
Tagged(id, e) ==
    [id |-> id, topage_DDJC |-> "oui",
     MATRICULE_PICRIS_CCPMA |-> e.MATRICULE_PICRIS_CCPMA,
     MATRICULE_PICRIS_CPCEA |-> e.MATRICULE_PICRIS_CPCEA,
     MATRICULE_PICRIS_AGRI |-> e.MATRICULE_PICRIS_AGRI]

\* Mutant of Enrich: the last matched SIREN gives the matricules.
EnrichLastMatch(id, info) ==
    LET matches == MatchedSirens(Pool[id], DOMAIN info)
    IN  Tagged(id, info[matches[Len(matches)]])

\* The record as kept: record["topage_DDJC"] = "oui", and the matricules of
\* the first matched SIREN ("for siren in matches: ... break").
Enrich(id, info) ==
    LET matches == MatchedSirens(Pool[id], DOMAIN info)
    IN  Tagged(id, info[matches[1]])

\* seen_per_day: the days of the records whose date parses, but for the days
\* of existing.
SeenDays(recs, ex) ==
    {Dated(Pool[recs[i]]) : i \in 1..Len(recs)} \ ({NoDay} \cup ex)

\* Mutant of SeenDays: existing is not consulted.
SeenDaysAll(recs, ex) ==
    {Dated(Pool[recs[i]]) : i \in 1..Len(recs)} \ {NoDay}

\* kept_per_day[day] after the records of one file.
KeptPerDay(recs, d, info, keywords) ==
    LET Kept(id) == Dated(Pool[id]) = d /\ Keeps(Pool[id], info, keywords)
        sel == SelectSeq(recs, Kept)
    IN  [i \in 1..Len(sel) |-> Enrich(sel[i], info)]

\* Mutant of WriteDayFile: the target is written whether it exists or not.
WriteDayFileAlways(f, recs) == File(recs)

\* _write_day_file: nothing when the target exists, else the records.
WriteDayFile(f, recs) == IF f.exists THEN f ELSE File(recs)

\* ---------------------------------------------------------- the inputs
RECURSIVE SetToSeq(_)
\* sorted(): the elements of a set of numbers in increasing order.
SetToSeq(S) ==
    IF S = {} THEN <<>>
    ELSE LET m == CHOOSE x \in S : \A y \in S : x <= y
         IN  <<m>> \o SetToSeq(S \ {m})

\* What a DayArtifact may hold: up to MaxFileRecs records of the catalogue.
FileContents ==
    {SetToSeq(S) : S \in {T \in SUBSET PoolIds : Cardinality(T) <= MaxFileRecs}}

\* The SIREN CSV and the keywords of config.ini a run may be given.
ConfigChoices ==
    {[csv |-> CsvGood, kw |-> <<>>],
     [csv |-> CsvGood, kw |-> <<<<"S", "a", "u", "v", "e", "g", "a", "r", "d",
                                "e">>,
                                <<" ">>,
                                <<" ", " ", "L", "i", "q", "u", "i", "d", "a",
                                "t", "i", "o", "n", " ", "J", "u", "d", "i",
                                "c", "i", "a", "i", "r", "e", " ">>>>],
     [csv |-> CsvMissing, kw |-> <<>>],
     [csv |-> CsvUnreadable, kw |-> <<>>],
     [csv |-> CsvNoValidRow, kw |-> <<>>]}

\* ------------------------------------------------------------- main()
\* _existing_days: the days that have a file in filtered_output_dir.
ExistingDays(dir) == {d \in FilterDays : dir[d].exists}

\* Mutant of NoSirens: the registry is not checked.
NoSirensUnchecked(sirens) == FALSE

\* if not sirens: raise ValueError
NoSirens(sirens) == sirens = {}

\* The filter stage before its first run: any DayArtifacts, any
\* configuration, an empty filtered_output_dir.
InitFilter ==
    /\ FetchIdle
    /\ MatchIdle
    /\ daily \in [FilterDays -> {Absent} \cup {File(c) : c \in FileContents}]
    /\ config \in ConfigChoices
    /\ filtered = [d \in FilterDays |-> Absent]
    /\ fpc = "start"
    /\ frun = 1
    /\ input_files = <<>>
    /\ fi = 0
    /\ existing = {}
    /\ startFiltered = [d \in FilterDays |-> Absent]
    /\ processed = {}
    /\ failed = {}

\* main() up to the call of _filter_records, and the start of that call: the
\* input files found, the registry loaded; one or the other empty raises,
\* which the outer except turns into sys.exit(1).
FilterStart ==
    /\ fpc = "start"
    /\ startFiltered' = filtered
    /\ processed' = {}
    /\ failed' = {}
    /\ LET found == SetToSeq({d \in FilterDays : daily[d].exists})
           sirens_info == LoadSirensWithInfo(config.csv)
       IN  IF found = <<>> \/ NoSirens(DOMAIN sirens_info)
           THEN /\ fpc' = "fatal"
                /\ UNCHANGED <<input_files, fi, existing>>
           ELSE /\ input_files' = found
                /\ existing' = ExistingDays(filtered)
                /\ fi' = 1
                /\ fpc' = "file"
    /\ UNCHANGED <<fetchVars, matchVars, daily, config, filtered, frun>>

\* Mutant of FilteredAfter: neither existing nor the target is consulted.
FilteredAfterRewrites(dir, recs, ex, info, keywords) ==
    [d \in FilterDays |->
        IF d \in SeenDaysAll(recs, ex)
        THEN WriteDayFileAlways(dir[d], KeptPerDay(recs, d, info, keywords))
        ELSE dir[d]]

\* filtered_output_dir after the records of one input file are read and
\* "for day_str in sorted(seen_per_day): _write_day_file(...)" has run.
FilteredAfter(dir, recs, ex, info, keywords) ==
    [d \in FilterDays |->
        IF d \in SeenDays(recs, ex)
        THEN WriteDayFile(dir[d], KeptPerDay(recs, d, info, keywords))
        ELSE dir[d]]

\* The lines of a DayArtifact are the records of the catalogue (their
\* numbers) and two other lines: one that json.loads rejects, such as a
\* record cut short, and one that is a JSON list, such as [1, 2].
NotJsonLine == 0
ListLine == 0 - 1

\* Mutant of LoadBodaccJsonl: the reading stops at a line that does not parse.
RECURSIVE LoadBodaccJsonlStops(_)
LoadBodaccJsonlStops(lines) ==
    IF lines = <<>> \/ Head(lines) = NotJsonLine THEN <<>>
    ELSE <<Head(lines)>> \o LoadBodaccJsonlStops(Tail(lines))

\* _load_bodacc_jsonl: the values of the lines json.loads accepts; a line it
\* rejects is passed with a warning.
LoadBodaccJsonl(lines) ==
    LET Decoded(line) == line # NotJsonLine
    IN  SelectSeq(lines, Decoded)

\* The value has a method get: it is a dict.
IsDict(v) == v \in PoolIds

\* record.get("dateparution") raises AttributeError for one of the values.
GetRaises(records) == \E i \in 1..Len(records) : ~IsDict(records[i])

\* One turn of "for input_file in input_files": a file whose own day is in
\* existing is passed; otherwise its records are read, and every day seen
\* is written and added to existing, unless the loop over the records
\* raises: "except Exception: ... continue" then leaves the file's days
\* unwritten.
ProcessFile ==
    /\ fpc = "file"
    /\ LET target_day == input_files[fi]
           recs == LoadBodaccJsonl(daily[target_day].recs)
       IN  IF target_day \in existing
           THEN UNCHANGED <<filtered, existing, processed, failed>>
           ELSE IF GetRaises(recs)
           THEN /\ failed' = failed \cup {target_day}
                /\ UNCHANGED <<filtered, existing, processed>>
           ELSE /\ filtered' = FilteredAfter(filtered, recs, existing,
                                             LoadSirensWithInfo(config.csv),
                                             TopageKeywords(config.kw))
                /\ existing' = existing \cup SeenDays(recs, existing)
                /\ processed' = processed \cup {target_day}
                /\ UNCHANGED failed
    /\ IF fi < Len(input_files)
       THEN /\ fi' = fi + 1
            /\ fpc' = "file"
       ELSE /\ fi' = fi
            /\ fpc' = "done"
    /\ UNCHANGED <<fetchVars, matchVars, daily, config, frun, input_files,
                   startFiltered>>

\* One turn of "for input_file in input_files" in which the reading of the
\* file raises (the file cannot be opened or decoded): "except Exception:
\* ... continue" leaves the days seen so far unwritten.
ReadFails ==
    /\ fpc = "file"
    /\ input_files[fi] \notin existing
    /\ failed' = failed \cup {input_files[fi]}
    /\ IF fi < Len(input_files)
       THEN /\ fi' = fi + 1
            /\ fpc' = "file"
       ELSE /\ fi' = fi
            /\ fpc' = "done"
    /\ UNCHANGED <<fetchVars, matchVars, daily, config, filtered, frun,
                   input_files, existing, startFiltered, processed>>

\* The filter is started again over the same directories; the SIREN CSV
\* may have been removed since the run before.
FilterAgain ==
    /\ fpc \in {"done", "fatal"}
    /\ frun < MaxRuns
    /\ frun' = frun + 1
    /\ fpc' = "start"
    /\ config' \in {config, [config EXCEPT !.csv = CsvMissing]}
    /\ input_files' = <<>>
    /\ fi' = 0
    /\ existing' = {}
    /\ UNCHANGED <<fetchVars, matchVars, daily, filtered, startFiltered,
                   processed, failed>>

NextFilter ==
    \/ FilterStart
    \/ ProcessFile
    \/ FilterAgain

FilterSpec == InitFilter /\ [][NextFilter]_vars

\* The filter stage under the registry of CsvGood and the default
\* vocabulary, the reading of any input file being able to raise.
InitFilterErr ==
    /\ InitFilter
    /\ config = [csv |-> CsvGood, kw |-> <<>>]

\* One run of the filter's main().
NextFilterErr ==
    \/ FilterStart
    \/ ProcessFile
    \/ ReadFails

\* The runs of the fetch stage, or one run of the filter stage.
InitStages == Init \/ InitFilterErr

NextStages == Next \/ NextFilterErr

StagesSpec == InitStages /\ [][NextStages]_vars

\* ---------------------------------------------- the matching functions
\* registre values a record may carry.
RegistreSamples ==
    {JStr(<<"1", "2", "3", " ", "4", "5", "6", " ", "7", "8", "9">>),
     JStr(<<"1", "2", "3", "4", "5", "6", "7", "8", "9">>),
     JStr(<<"S", "I", "R", "E", "N", ":", "1", "2", "3", "4", "5", "6",
              "7", "8", "9">>),
     JStr(<<"9", "8", "7", "6", "5", "4", "3", "2", "1">>),
     JStr(<<"1", "2", "3", "4", "5", "6", "7", "8">>),
     JStr(<<"R", "C", "S", " ", "P", "a", "r", "i", "s">>),
     JStr(<<>>),
     JNull,
     JList(<<>>),
     JList(<<JStr(<<"9", "8", "7", "6", "5", "4", "3", "2", "1">>),
             JStr(<<"S", "I", "R", "E", "N", ":", "1", "2", "3", "4", "5", "6",
              "7", "8", "9">>)>>),
     JList(<<JStr(<<"1", "2", "3", "4", "5", "6", "7", "8">>), JStr(<<"R", "C", "S", " ", "P", "a", "r", "i", "s">>)>>)}

\* Texts a record may carry.
TextSamples ==
    {<<"C", "L", "O", "T", "U", "R", "E">>,
     <<"c", "l", "o+circ", "t", "u", "r", "e">>,
     <<"C", "l", "o+circ", "t", "u", "r", "e">>,
     <<"o", "u", "v", "e", "r", "t", "u", "r", "e">>}

\* Lines the topage_keywords option may hold.
KeywordLineSamples ==
    {<<"c", "l", "o", "t", "u", "r", "e">>,
     <<"C", "l", "o+circ", "t", "u", "r", "e">>,
     <<"C", "L", "O+circ", "T", "U", "R", "E">>,
     <<"r", "a", "d", "i", "a", "t", "i", "o", "n">>,
     <<" ">>}

\* One record's registre and text, and one configuration line, are given.
InitMatch ==
    /\ FetchIdle
    /\ FilterIdle
    /\ probe \in [registre : RegistreSamples, text : TextSamples,
                  line : KeywordLineSamples]
    /\ verdict = [done |-> FALSE, matches |-> <<>>, tagged |-> FALSE]

\* _matched_sirens against the registry of CsvGood, and _flag_keywords
\* under the vocabulary main() builds from the line.
Evaluate ==
    /\ ~verdict.done
    /\ verdict' =
          [done |-> TRUE,
           matches |-> MatchedSirens(Record(DateNull, probe.registre, <<>>),
                                     DOMAIN LoadSirensWithInfo(CsvGood)),
           tagged |-> FlagKeywords(probe.text,
                                   TopageKeywords(<<probe.line>>))]
    /\ UNCHANGED <<fetchVars, filterVars, probe>>

NextMatch == Evaluate

MatchSpec == InitMatch /\ [][NextMatch]_vars

\* Values of a field: plain, nested, encoded once, and encoded twice.
JsonSamples ==
    JsonValues
        \cup {JStr(Dumps(e)) : e \in JsonEncoded}
        \cup {JList(<<e, JNum(<<"1", "2", "3">>)>>) : e \in JsonEncoded}

\* One value of a text field is given.
InitCollect ==
    /\ FetchIdle
    /\ FilterIdle
    /\ probe \in [value : JsonSamples]
    /\ verdict = [done |-> FALSE, texts |-> <<>>]

\* text_parts.extend(_deep_collect_text(record[field]))
Collect ==
    /\ ~verdict.done
    /\ verdict' = [done |-> TRUE, texts |-> DeepCollectText(probe.value)]
    /\ UNCHANGED <<fetchVars, filterVars, probe>>

NextCollect == Collect

CollectSpec == InitCollect /\ [][NextCollect]_vars

\* ------------------------------------------------ lines of a DayArtifact
\* Lines of a DayArtifact: three records (one of another day, one that is
\* not kept), a line that is not JSON and a line that is a JSON list.
LineSamples == {1, 2, 4, NotJsonLine, ListLine}

\* What the DayArtifact of day 1 may hold: at most MaxLines such lines.
LineContents == UNION {[1..n -> LineSamples] : n \in 0..MaxLines}

\* One run of the filter under the registry of CsvGood and the default
\* vocabulary: the DayArtifact of day 1 holds any lines, that of a later day
\* is missing or holds one record.
InitLines ==
    /\ FetchIdle
    /\ MatchIdle
    /\ \E c \in LineContents :
       \E later \in [FilterDays \ {1} -> {Absent, File(<<2>>)}] :
           daily = [d \in FilterDays |-> IF d = 1 THEN File(c) ELSE later[d]]
    /\ config = [csv |-> CsvGood, kw |-> <<>>]
    /\ filtered = [d \in FilterDays |-> Absent]
    /\ fpc = "start"
    /\ frun = 1
    /\ input_files = <<>>
    /\ fi = 0
    /\ existing = {}
    /\ startFiltered = [d \in FilterDays |-> Absent]
    /\ processed = {}
    /\ failed = {}

NextLines ==
    \/ FilterStart
    \/ ProcessFile

LinesSpec == InitLines /\ [][NextLines]_vars

\* --------------------------------------------- the filter stage killed
\* DayArtifacts whose records are dated their own day, or not at all.
KillContents ==
    {<<>>, <<1>>, <<1, 1>>, <<1, 4>>, <<2>>, <<2, 2>>, <<2, 3>>, <<5>>}

\* The contents among them the DayArtifact of day d may have.
DaySamples(d) ==
    {c \in KillContents :
        \A i \in 1..Len(c) : Dated(Pool[c[i]]) \in {d, NoDay}}

\* The first run of the filter under the registry of CsvGood and the
\* default vocabulary, over such DayArtifacts.
InitKill ==
    /\ FetchIdle
    /\ MatchIdle
    /\ daily \in [FilterDays -> {Absent} \cup {File(c) : c \in KillContents}]
    /\ \A d \in FilterDays : daily[d].exists => daily[d].recs \in DaySamples(d)
    /\ config = [csv |-> CsvGood, kw |-> <<>>]
    /\ filtered = [d \in FilterDays |-> Absent]
    /\ fpc = "start"
    /\ frun = 1
    /\ input_files = <<>>
    /\ fi = 0
    /\ existing = {}
    /\ startFiltered = [d \in FilterDays |-> Absent]
    /\ processed = {}
    /\ failed = {}

\* "for input_file in input_files" passes to the next file, or ends.
NextFile ==
    IF fi < Len(input_files)
    THEN fi' = fi + 1 /\ fpc' = "file"
    ELSE fi' = fi /\ fpc' = "done"

\* One turn of "for input_file in input_files" up to the writes: a file
\* whose own day is in existing is passed, one whose records raise is left,
\* otherwise "for day_str in sorted(seen_per_day)" starts.
ReadFile ==
    /\ fpc = "file"
    /\ LET target_day == input_files[fi]
           recs == LoadBodaccJsonl(daily[target_day].recs)
       IN  IF target_day \in existing
           THEN NextFile /\ UNCHANGED <<processed, failed>>
           ELSE IF GetRaises(recs)
           THEN /\ NextFile
                /\ failed' = failed \cup {target_day}
                /\ UNCHANGED processed
           ELSE /\ fpc' = "write"
                /\ processed' = processed \cup {target_day}
                /\ UNCHANGED <<fi, failed>>
    /\ UNCHANGED <<fetchVars, matchVars, daily, config, filtered, frun,
                   input_files, existing, startFiltered>>

\* The days of seen_per_day that "for day_str in sorted(seen_per_day)" has
\* not reached: each day reached is added to existing.
PendingDays ==
    SeenDays(LoadBodaccJsonl(daily[input_files[fi]].recs), existing)

\* The day the loop is at.
WriteDay == CHOOSE d \in PendingDays : \A e \in PendingDays : d <= e

\* _write_day_file up to target.open("w"): nothing when the target exists,
\* otherwise the target is created empty; after the last day, the next file.
WriteOpen ==
    /\ fpc = "write"
    /\ IF PendingDays = {}
       THEN NextFile /\ UNCHANGED <<filtered, existing>>
       ELSE IF filtered[WriteDay].exists
       THEN /\ existing' = existing \cup {WriteDay}
            /\ UNCHANGED <<filtered, fi, fpc>>
       ELSE /\ filtered' = [filtered EXCEPT ![WriteDay] = File(<<>>)]
            /\ fpc' = "writing"
            /\ UNCHANGED <<existing, fi>>
    /\ UNCHANGED <<fetchVars, matchVars, daily, config, frun, input_files,
                   startFiltered, processed, failed>>

\* stream.write("\n".join(records) + "\n"), the end of the with block, and
\* existing.add(day_str).
WriteClose ==
    /\ fpc = "writing"
    /\ filtered' = [filtered EXCEPT ![WriteDay] =
                       File(KeptPerDay(
                                LoadBodaccJsonl(daily[input_files[fi]].recs),
                                WriteDay, LoadSirensWithInfo(config.csv),
                                TopageKeywords(config.kw)))]
    /\ existing' = existing \cup {WriteDay}
    /\ fpc' = "write"
    /\ UNCHANGED <<fetchVars, matchVars, daily, config, frun, input_files, fi,
                   startFiltered, processed, failed>>

\* The process is killed: its memory is lost, the files stay.  Inside the
\* with block the stream is buffered: what has reached the file is any
\* part of the text from its start.
FilterKill ==
    /\ fpc \in {"file", "write", "writing"}
    /\ IF fpc = "writing"
       THEN LET kept == KeptPerDay(
                            LoadBodaccJsonl(daily[input_files[fi]].recs),
                            WriteDay, LoadSirensWithInfo(config.csv),
                            TopageKeywords(config.kw))
            IN  \E k \in 0..Len(kept) :
                   filtered' = [filtered EXCEPT ![WriteDay] =
                                   File(SubSeq(kept, 1, k))]
       ELSE UNCHANGED filtered
    /\ fpc' = "dead"
    /\ input_files' = <<>>
    /\ fi' = 0
    /\ existing' = {}
    /\ UNCHANGED <<fetchVars, matchVars, daily, config, frun, startFiltered,
                   processed, failed>>

\* main() is started again over the same directories.
FilterRestart ==
    /\ fpc \in {"done", "dead"}
    /\ frun < MaxRuns
    /\ frun' = frun + 1
    /\ fpc' = "start"
    /\ input_files' = <<>>
    /\ fi' = 0
    /\ existing' = {}
    /\ UNCHANGED <<fetchVars, matchVars, daily, config, filtered,
                   startFiltered, processed, failed>>

NextKill ==
    \/ FilterStart
    \/ ReadFile
    \/ WriteOpen
    \/ WriteClose
    \/ FilterKill
    \/ FilterRestart

KillSpec == InitKill /\ [][NextKill]_vars

\* ------------------------------------------------------ registry loader
\* Rows of a SIREN CSV: those of CsvGood and CsvNoValidRow, and two rows
\* that stop after their first or second column.
RowSamples ==
    Range(CsvGood.rows) \cup Range(CsvNoValidRow.rows)
        \cup {CsvRow(Siren2, RestVal, RestVal, RestVal),
              CsvRow(<<"1", "2", "3", "4", "5", "6", "7", "8">>, <<"C", "7">>,
                     RestVal, RestVal)}

\* The rows of a file: at most MaxRows of them.
RowSeqs == UNION {[1..n -> RowSamples] : n \in 0..MaxRows}

\* One SIREN CSV is given: missing, unreadable, or any rows.
InitRegistry ==
    /\ FetchIdle
    /\ FilterIdle
    /\ probe \in [csv : {CsvMissing, CsvUnreadable}
                          \cup {[state |-> "ok", rows |-> rows] :
                                    rows \in RowSeqs}]
    /\ verdict = [done |-> FALSE, registry |-> <<>>]

\* siren_info = _load_sirens_with_info(siren_file)
LoadRegistry ==
    /\ ~verdict.done
    /\ verdict' = [done |-> TRUE, registry |-> LoadSirensWithInfo(probe.csv)]
    /\ UNCHANGED <<fetchVars, filterVars, probe>>

NextRegistry == LoadRegistry

RegistrySpec == InitRegistry /\ [][NextRegistry]_vars

\* ============================================================== claims
AllCats == Range(PUBLICATION_TYPES)

\* Every record of fragment f is in the DayArtifact of f's day.
InArtifact(f) == Range(f.recs) \subseteq Range(artifact[f.day].recs)

\* The process is inside the "with open(target_path, 'w')" block of day d.
WritingArtifact(d) == pc = "merge_write" /\ day = d

\* C1: a day whose DayArtifact exists when the day is reached is skipped
\* entirely: from the skip on, in that run, no request is issued for it, no
\* fragment of it is created or deleted, merge is not called for it and its
\* DayArtifact is unchanged.
C1_SkippedDayUntouched ==
    /\ [](\A d \in skipped : d \notin requested /\ artifact[d].exists)
    /\ [][\A d \in Days :
            (d \in skipped \/ d \in skipped') =>
                /\ artifact'[d] = artifact[d]
                /\ DayParts(frags', d) = DayParts(frags, d)
                /\ (d \in requested' => d \in requested)
                /\ mergeCalls'[d] = mergeCalls[d]]_vars

\* C1 witness: a run ended having skipped a day that holds records, and
\* having fetched another day.
C1_Witness ==
    /\ pc = "done"
    /\ requested # {}
    /\ \E d \in skipped : artifact[d].recs # <<>>

\* C2: once a run over the range has completed, a further run over the same
\* range leaves every DayArtifact as it was and issues no request.
C2_SecondRunIdempotent ==
    [][completedOnce => (artifact' = artifact /\ requested' = {})]_vars

\* C2 witness: a second run has ended after a completed one, every day skipped.
C2_Witness ==
    /\ completedOnce
    /\ run >= 2
    /\ pc = "done"
    /\ skipped = Days
    /\ requested = {}

\* C3 (the claim as stated): a 429 response repeats the same request without
\* consuming a retry attempt, and never makes the (day, category) abandoned.
C3_RateLimitKeepsBudget ==
    [][(pc = "response" /\ resp.kind = "429" /\ pc' # "dead") =>
            /\ pc' = "request"
            /\ attempt' = attempt
            /\ abandoned' = abandoned
            /\ <<day, ci, last_numero, page_idx>>' =
                   <<day, ci, last_numero, page_idx>>]_vars

\* C4 (the claim as stated): a DayArtifact that exists, and is not being
\* written by the running merge, holds every record of every fragment of
\* its day: it is never a proper prefix of the concatenation.
C4_MergeAtomic ==
    \A d \in Days :
        (artifact[d].exists /\ ~WritingArtifact(d)) =>
            \A f \in DayParts(frags, d) : InArtifact(f)

C6_WrittenOnce ==
    /\ [](\A d \in Days : mergeCalls[d] <= 1)
    /\ [][\A d \in Days :
            (artifact[d].exists /\ ~WritingArtifact(d)) =>
                artifact'[d] = artifact[d]]_vars

\* C6 witness: after a crash and a restart, a day written by an earlier run
\* has been skipped, its one merge call being that earlier run's.
C6_Witness ==
    /\ run >= 2
    /\ pc = "check_day"
    /\ \E d \in skipped :
          mergeCalls[d] = 1 /\ \E r \in Range(artifact[d].recs) : r.run < run

\* C7: when the retries of a page are exhausted, the fragments staged so far
\* are kept, the fetch returns to main() (next category or merge), and the
\* kept fragments end up in the day's DayArtifact.
C7_AbandonKeepsFragments ==
    /\ [](\A f \in keptFrags : f \in frags \/ InArtifact(f))
    /\ [][(abandoned' \ abandoned # {}) =>
            /\ frags' = frags
            /\ artifact' = artifact
            /\ day' = day
            /\ pc' \in {"request", "merge"}]_vars

\* C7 witness: a run ended with a category abandoned after a staged page,
\* that page merged into a DayArtifact that lacks the rest of the category.
C7_Witness ==
    /\ pc = "done"
    /\ \E f \in keptFrags :
          /\ InArtifact(f)
          /\ Cardinality({r \in Range(artifact[f.day].recs) : r.cat = f.cat})
                < UpstreamSize(f.day, f.cat)

\* C8: an abandoned category does not block the others: after it the next
\* category of PUBLICATION_TYPES is fetched (or, after the last, the merge
\* starts), the merge starts only when every category was fetched, and the
\* day ends with exactly one merge call.
C8_CategoriesIndependent ==
    /\ [](pc \in {"merge", "merge_write", "merge_unlink"} => fetched = AllCats)
    /\ [][(abandoned' \ abandoned # {}) =>
            IF ci < NumCats
            THEN pc' = "request" /\ ci' = ci + 1 /\ attempt' = 0
                 /\ PUBLICATION_TYPES[ci + 1] \in fetched'
            ELSE pc' = "merge"]_vars
    /\ [][(abandoned # {} /\ pc' # "dead" /\ (day' # day \/ pc' = "done")) =>
            mergeCalls'[day] = 1]_vars

\* C8 witness: the merge is about to start for a day whose first category was
\* abandoned and whose second category staged a fragment.
C8_Witness ==
    /\ pc = "merge"
    /\ PUBLICATION_TYPES[1] \in abandoned
    /\ \E f \in DayParts(frags, day) : f.cat = PUBLICATION_TYPES[2]

\* The smallest numeroannonce of a page.
SeqMinNum(recs) ==
    LET nums == {recs[i].num : i \in 1..Len(recs)}
    IN  CHOOSE m \in nums : \A x \in nums : m <= x

\* Fragments f, g are consecutive pages of one fetch of a (day, category).
ConsecutivePages(f, g) ==
    /\ f.day = g.day
    /\ f.cat = g.cat
    /\ g.idx = f.idx + 1
    /\ f.recs[1].run = g.recs[1].run

\* C9: for consecutive pages staged by one fetch, the minimum sequence number
\* of the later page is greater than the maximum of the earlier page.
C9_MonotonicPages ==
    \A f, g \in frags :
        ConsecutivePages(f, g) => SeqMinNum(g.recs) > SeqMaxNum(f.recs)

\* C9 witness: two consecutive pages of one fetch are staged.
C9_Witness == \E f, g \in frags : ConsecutivePages(f, g)

\* The page in resp is staged as the next fragment of the (day, category).
Staged(fs) ==
    \E f \in fs : /\ f.day = day
                   /\ f.cat = PUBLICATION_TYPES[ci]
                   /\ f.idx = page_idx + 1
                   /\ f.recs = resp.recs

\* C10: a successful non-empty page is staged; a short one ends the fetch of
\* the category (the next step of main() is the next category or the merge),
\* a full one is followed by another request of the same (day, category).
C10_PageSizeTermination ==
    [][(pc = "response" /\ resp.kind = "ok" /\ resp.recs # <<>>
            /\ pc' # "dead") =>
            /\ Staged(frags')
            /\ IF Len(resp.recs) < PerPage
               THEN /\ page_idx' = 0
                    /\ last_numero' = 0
                    /\ \/ pc' = "merge" /\ ci = NumCats
                       \/ pc' = "request" /\ ci' = ci + 1
               ELSE /\ pc' = "request"
                    /\ <<day, ci>>' = <<day, ci>>
                    /\ page_idx' = page_idx + 1]_vars

\* C10 witness: a request is about to follow a page of exactly per_page
\* records, in a day where a short page has ended another category.
C10_Witness ==
    /\ pc = "request"
    /\ page_idx = 1
    /\ \E f \in DayParts(frags, day) :
          /\ f.cat = PUBLICATION_TYPES[ci]
          /\ f.idx = 1
          /\ Len(f.recs) = PerPage
          /\ UpstreamSize(day, f.cat) = PerPage
    /\ \E f \in DayParts(frags, day) :
          /\ f.cat # PUBLICATION_TYPES[ci]
          /\ Len(f.recs) < PerPage
          /\ f.recs[1].run = run


\* C11: an empty page of a 2xx answer stages no fragment and ends the fetch
\* of its category (the next category is requested, or the merge starts);
\* when every category of the day has nothing upstream the merge starts with
\* no fragment of the day, and a merge that finds no fragment leaves an
\* existing, empty DayArtifact and finishes the day.
C11_EmptyDayEmptyArtifact ==
    /\ []((pc = "merge" /\ \A c \in AllCats : UpstreamSize(day, c) = 0)
             => DayParts(frags, day) = {})
    /\ [][/\ (pc = "response" /\ resp.kind = "ok" /\ resp.recs = <<>>
              /\ pc' # "dead")
             => /\ frags' = frags
                /\ \/ pc' = "request" /\ ci' = ci + 1 /\ page_idx' = 0
                   \/ pc' = "merge" /\ ci = NumCats
          /\ (pc = "merge" /\ DayParts(frags, day) = {} /\ pc' # "dead")
             => /\ artifact'[day] = File(<<>>)
                /\ frags' = frags
                /\ pc' \in {"check_day", "done"}]_vars

\* C11 witness: a later run skips a day whose every category was empty, its
\* DayArtifact being the empty file the one merge of that day left.
C11_Witness ==
    /\ run > 1
    /\ \E d \in skipped :
          /\ \A c \in AllCats : UpstreamSize(d, c) = 0
          /\ artifact[d] = File(<<>>)
          /\ mergeCalls[d] = 1

\* C12: whatever start and end dates were asked for, no request is issued for
\* a day on or after the date main() read as today, no DayArtifact of such a
\* day exists and no merge of such a day is started; the last day of the
\* window is never after yesterday.
C12_EndClampedToYesterday ==
    /\ \A d \in Days :
          d >= today => /\ d \notin requested
                        /\ ~artifact[d].exists
                        /\ mergeCalls[d] = 0
    /\ pc \notin {"start", "fatal"} => end_date <= Yesterday(today)
    /\ pc \notin {"start", "fatal", "done"} => day < today

\* C12 witness: a run asked for an end date that is today has finished,
\* having fetched and merged yesterday.
C12_Witness ==
    /\ pc = "done"
    /\ args.end # NoDate
    /\ args.end >= today
    /\ Yesterday(today) \in requested
    /\ artifact[Yesterday(today)].exists

\* The end date asked for (yesterday when none is), brought back to
\* yesterday when it is today or later.
AdjustedEnd ==
    LET asked == IF args.end # NoDate THEN args.end ELSE today - 1
    IN  IF asked >= today THEN today - 1 ELSE asked

\* C13: the start of main() ends in the fatal exit exactly when the start
\* date is after the end date as adjusted; that step changes no file, and a
\* run that ended so has issued no request, cleaned no staging directory and
\* started no merge.
C13_InvalidRangeAborts ==
    /\ [](pc = "fatal" => /\ requested = {}
                          /\ \A d \in Days : /\ cleaned[d] = 0
                                              /\ mergeCalls[d] = 0
                                              /\ ~artifact[d].exists)
    /\ [][/\ pc = "start"
             => /\ (pc' = "fatal")
                      <=> StartDate(args, today) > AdjustedEnd
                /\ pc' = "fatal" => files' = files
          /\ pc = "fatal" => files' = files]_vars

\* C13 witness: a run whose start date is after the adjusted end date has
\* aborted, the stale fragment of the staging directory still in place.
C13_Witness ==
    /\ pc = "fatal"
    /\ args.start # NoDate
    /\ args.end >= today
    /\ args.start = today
    /\ frags = {StaleFragment}

\* ------------------------------------------------- filter stage claims
\* The registry and the vocabulary of the run.
RunInfo == LoadSirensWithInfo(config.csv)
RunKeywords == TopageKeywords(config.kw)

RECURSIVE KeptOfFiles(_, _)
\* The records dated d that pass both matchings, over the input files ds in
\* their order.
KeptOfFiles(ds, d) ==
    IF ds = <<>> THEN <<>>
    ELSE KeptPerDay(daily[Head(ds)].recs, d, RunInfo, RunKeywords)
             \o KeptOfFiles(Tail(ds), d)

\* The same over every DayArtifact of daily_output_dir.
ExpectedFiltered(d) ==
    KeptOfFiles(SetToSeq({f \in FilterDays : daily[f].exists}), d)

\* The days some record of some input DayArtifact is dated.
DaysPresent ==
    UNION {{Dated(Pool[daily[f].recs[i]]) : i \in 1..Len(daily[f].recs)} :
              f \in {g \in FilterDays : daily[g].exists}} \ {NoDay}

\* C14: when a filter run is over, every day some input record is dated and
\* that had no FilteredDayArtifact when the run started has one, and it
\* holds every record of that date that passes both matchings, whichever
\* input DayArtifact the record is in.
C14_GroupedByRecordDate ==
    fpc = "done" =>
        \A d \in DaysPresent :
            ~startFiltered[d].exists =>
                /\ filtered[d].exists
                /\ \A i \in 1..Len(ExpectedFiltered(d)) :
                      ExpectedFiltered(d)[i] \in Range(filtered[d].recs)

\* The registre candidates of a record: the string, or the strings of the
\* list.
Candidates(record) ==
    IF record.registre.t = "str" THEN {record.registre.s}
    ELSE IF record.registre.t = "list"
    THEN {record.registre.l[i].s :
             i \in {j \in 1..Len(record.registre.l) :
                       record.registre.l[j].t = "str"}}
    ELSE {}

\* The records of the catalogue the input files this run read hold.
ReadIds == UNION {Range(daily[f].recs) : f \in processed}

\* C15: every record a step adds to a FilteredDayArtifact has a publication
\* date that parses (to the day of that artifact), a registre candidate
\* whose digits are a key of the registry of the run, and a keyword of the
\* vocabulary of the run inside its normalized collected text.
C15_EmittedOnlyIfAllThree ==
    [][\A d \in FilterDays :
          \A e \in Range(filtered'[d].recs) \ Range(filtered[d].recs) :
              LET record == Pool[e.id]
                  text == NormalizeText(
                              Join(CollectFields(record, TagFields), <<" ">>))
              IN  /\ record.dateparution.isstr
                  /\ ParseDay(record.dateparution) = d
                  /\ d # NoDay
                  /\ \E c \in Candidates(record) :
                        DigitsOnly(c) \in DOMAIN RunInfo
                  /\ \E k \in Range(RunKeywords) : Contains(k, text)]_vars

\* C15 witness: a run under the default vocabulary is over that read a
\* record with a SIREN match and no keyword, one with a keyword and no SIREN
\* match, and one whose date does not parse, and that emitted a record.
C15_Witness ==
    /\ fpc = "done"
    /\ frun = 1
    /\ config.kw = <<>>
    /\ {3, 4, 5} \subseteq ReadIds
    /\ \E d \in FilterDays : filtered[d].recs # <<>>

\* C18: a FilteredDayArtifact that exists is left as it is by every step of
\* every run.
C18_FilteredNeverRewritten ==
    [][\A d \in FilterDays :
          filtered[d].exists => filtered'[d] = filtered[d]]_vars

\* C18 witness: a later run is over, and a FilteredDayArtifact it found lacks
\* a record of its day that the inputs hold and that passes both matchings.
C18_Witness ==
    /\ fpc = "done"
    /\ frun > 1
    /\ processed # {}
    /\ \E d \in FilterDays :
          /\ startFiltered[d].exists
          /\ filtered[d] = startFiltered[d]
          /\ \E i \in 1..Len(ExpectedFiltered(d)) :
                ExpectedFiltered(d)[i] \notin Range(filtered[d].recs)

\* C19: when a filter run is over, every day whose DayArtifact the run read
\* without keeping any of its records has a FilteredDayArtifact, which is
\* empty when no input holds a record of that day that passes both
\* matchings.
C19_EmptyArtifactMarksDay ==
    fpc = "done" =>
        \A d \in processed :
            (\A e \in FilterDays :
                 KeptPerDay(daily[d].recs, e, RunInfo, RunKeywords) = <<>>)
                => /\ filtered[d].exists
                   /\ ExpectedFiltered(d) = <<>> => filtered[d].recs = <<>>

\* The number of digits of a string.
DigitCount(s) == Cardinality({i \in 1..Len(s) : IsDigit(s[i])})

\* The SIREN CSV is there, can be read and has a row with nine digits.
RegistryHasEntry ==
    /\ config.csv.state = "ok"
    /\ \E i \in 1..Len(config.csv.rows) :
          DigitCount(config.csv.rows[i].CODE_SIREN) = 9

\* C20: a filter run ends in the fatal exit exactly when no input
\* DayArtifact is found or the registry has no valid entry, and a run that
\* ended so has left every FilteredDayArtifact as it found it, creating
\* none.
C20_FatalWithoutRegistryOrInput ==
    /\ [](fpc = "fatal" => filtered = startFiltered)
    /\ [][/\ fpc = "start"
             => /\ (fpc' = "fatal")
                      <=> \/ \A d \in FilterDays : ~daily[d].exists
                          \/ ~RegistryHasEntry
                /\ fpc' = "fatal" => filtered' = filtered
          /\ fpc = "fatal" => filtered' = filtered]_vars

\* C20 witness: a run over existing DayArtifacts ended in the fatal exit
\* for want of the SIREN CSV, a FilteredDayArtifact of an earlier run being
\* in place with its records.
C20_Witness ==
    /\ fpc = "fatal"
    /\ \E d \in FilterDays : daily[d].exists
    /\ config.csv = CsvMissing
    /\ \E d \in FilterDays : filtered[d].recs # <<>>

\* ----------------------------------------- matching functions claims
RECURSIVE StripNonDigits(_)
\* A string without its characters that are not one of the ten digits.
StripNonDigits(s) ==
    IF s = <<>> THEN <<>>
    ELSE IF Head(s) \in {"0", "1", "2", "3", "4", "5", "6", "7", "8", "9"}
    THEN <<Head(s)>> \o StripNonDigits(Tail(s))
    ELSE StripNonDigits(Tail(s))

\* C16: a registre that is a string or a list of strings matches exactly
\* when one of its candidates, stripped of every character that is not a
\* digit, is a key of the registry; "123 456 789", "123456789" and
\* "SIREN:123456789" match the key "123456789".
C16_DigitNormalizedMatch ==
    verdict.done =>
        /\ probe.registre.t \in {"str", "list"}
              => ((verdict.matches # <<>>)
                    <=> \E c \in Candidates(probe) :
                            StripNonDigits(c) \in {Siren1, Siren3})
        /\ probe.registre \in {JStr(<<"1", "2", "3", " ", "4", "5", "6", " ", "7", "8", "9">>),
                               JStr(<<"1", "2", "3", "4", "5", "6", "7", "8", "9">>),
                               JStr(<<"S", "I", "R", "E", "N", ":", "1", "2", "3", "4", "5", "6",
              "7", "8", "9">>)}
              => verdict.matches = <<Siren1>>

\* C16 witness: "SIREN:123456789" was matched to the key "123456789".
C16_Witness ==
    /\ verdict.done
    /\ probe.registre = JStr(<<"S", "I", "R", "E", "N", ":", "1", "2", "3", "4",
                           "5", "6", "7", "8", "9">>)
    /\ verdict.matches = <<Siren1>>

\* The letter of a character, whatever its case and its accent.
BaseLetter(ch) ==
    CASE ch \in {"e+acute", "E+acute", "E"} -> "e"
      [] ch \in {"o+circ", "O+circ", "O"}   -> "o"
      [] ch = "C" -> "c"
      [] ch = "L" -> "l"
      [] ch = "T" -> "t"
      [] ch = "U" -> "u"
      [] ch = "R" -> "r"
      [] OTHER -> ch

\* Two strings differ at most in letter case and diacritics.
SameLetters(a, b) ==
    /\ Len(a) = Len(b)
    /\ \A i \in 1..Len(a) : BaseLetter(a[i]) = BaseLetter(b[i])

\* C17: a text and a keyword line tag a record exactly as any text and any
\* keyword line that differ from them only in letter case or diacritics.
C17_CaseAccentInsensitive ==
    verdict.done =>
        \A t \in TextSamples, k \in KeywordLineSamples :
            (SameLetters(t, probe.text) /\ SameLetters(k, probe.line))
                => FlagKeywords(t, TopageKeywords(<<k>>)) = verdict.tagged

\* ------------------------------------------------- both stages claims
\* C21: no step of the fetch stage changes the DayArtifact of a day other
\* than the one it is working on, and a step that abandons a category, is
\* killed or ends in the fatal exit changes no DayArtifact at all; no step
\* of the filter stage changes a FilteredDayArtifact that exists, and a step
\* in which the reading of an input file raises changes none.
C21_ArtifactsIndependent ==
    [][/\ \A d \in Days : d # day => artifact'[d] = artifact[d]
       /\ abandoned' \ abandoned # {} => artifact' = artifact
       /\ pc' \in {"dead", "fatal"} => artifact' = artifact
       /\ \A d \in FilterDays :
             filtered[d].exists => filtered'[d] = filtered[d]
       /\ failed' # failed => filtered' = filtered]_vars

\* C21 witness: a filter run is over in which one input file was read and
\* its records written, and the reading of a later input file raised.
C21_Witness ==
    /\ fpc = "done"
    /\ \E f \in processed, g \in failed :
          /\ f < g
          /\ \E d \in FilterDays :
                /\ filtered[d].recs # <<>>
                /\ filtered[d].recs
                      = KeptPerDay(daily[f].recs, d, RunInfo, RunKeywords)

\* The same claim's case on the fetch side: a category of a later day is
\* abandoned while the DayArtifact of the first day holds its records.
C21_FetchCase ==
    /\ abandoned # {}
    /\ day > 1
    /\ artifact[1].recs # <<>>

\* ------------------------------------------------------------------ C22
\* A step that stays inside one call of _fetch_day(day, publicationavis).
SameFetch ==
    /\ pc \in {"request", "response"}
    /\ pc' \in {"request", "response"}
    /\ ci' = ci /\ day' = day /\ run' = run

\* The parameters of the request built from the state (params, 149-154).
Params == <<day, PUBLICATION_TYPES[ci], last_numero, PerPage>>
ParamsNext == <<day', PUBLICATION_TYPES[ci'], last_numero', PerPage>>

\* C22: within one fetch of a (day, category) the cursor starts at 0,
\* never decreases, and changes only on a successful non-empty page, where
\* it becomes the maximum of its old value and the largest sequence number
\* of the page; a failed or rate-limited attempt leaves the cursor, the
\* page index and the fragments unchanged, and the retried request carries
\* the same parameters.
C22_CursorDiscipline ==
    [][/\ (pc' = "request" /\ ~SameFetch) => last_numero' = 0 /\ page_idx' = 0
       /\ SameFetch => last_numero' >= last_numero
       /\ (SameFetch /\ last_numero' # last_numero) =>
              /\ pc = "response" /\ resp.kind = "ok" /\ resp.recs # <<>>
              /\ last_numero' = Max(last_numero, SeqMaxNum(resp.recs))
       /\ (pc = "response" /\ resp.kind \in {"429", "error", "notjson"}
              /\ pc' # "dead") =>
              /\ frags' = frags
              /\ SameFetch => /\ last_numero' = last_numero
                              /\ page_idx' = page_idx
                              /\ ParamsNext = Params]_vars

\* A retry is pending after a page has been staged and the cursor moved.
C22_Witness ==
    /\ pc = "request" /\ attempt > 0
    /\ last_numero > 0 /\ page_idx > 0

\* ------------------------------------------------------------------ C23
\* The request in flight failed with an exception (not a 429) and the
\* process lives on.
FailedAttempt == pc = "response" /\ Raises(resp) /\ pc' # "dead"

\* C23: transient failures are retried with exponential backoff up to a
\* bound: the request in flight for a page is never beyond the attempt
\* number maxRetries - 1 (counting from 0), a failure of that last attempt
\* ends the fetch of the category without another request, an earlier
\* failure leads to the next attempt for the same page, and the pause after
\* the failed attempt number k is backoffBase * 2^k.
C23_BoundedBackoff ==
    /\ [](pc = "response" => attempt < MaxRetries)
    /\ [][FailedAttempt =>
             /\ slept' = BackoffBase * 2^attempt
             /\ IF attempt + 1 < MaxRetries
                THEN SameFetch /\ pc' = "request" /\ attempt' = attempt + 1
                ELSE ~SameFetch /\ PUBLICATION_TYPES[ci] \in abandoned']_vars

\* The last allowed attempt for a page has failed after an earlier failure:
\* the process has just paused twice the base and given the category up.
C23_Witness ==
    /\ slept = 2 * BackoffBase
    /\ abandoned # {}
    /\ pc \in {"request", "merge"}

\* ------------------------------------------------------------------ C24
\* The 2xx answer in flight has a body that is not a JSON document carrying
\* a results list or a records list.
MalformedPayload == pc = "response" /\ resp.kind \in {"notjson", "nolist"}

\* C24: a malformed payload is treated as a transient failure: the attempt
\* is followed by the backoff pause and counts against maxRetries (the next
\* attempt for the same page, or the abandonment of the category after the
\* last one), and it is not taken as the end of the category's data.
C24_MalformedRetried ==
    [][MalformedPayload =>
          /\ slept' = BackoffBase * 2^attempt
          /\ IF attempt + 1 < MaxRetries
             THEN SameFetch /\ pc' = "request" /\ attempt' = attempt + 1
             ELSE PUBLICATION_TYPES[ci] \in abandoned']_vars

\* ------------------------------------------------------------------ C28
\* The non-empty page in resp is being staged by a process that lives on.
StagingStep ==
    /\ pc = "response" /\ resp.kind = "ok" /\ resp.recs # <<>>
    /\ pc' # "dead"

\* C28: fragment naming is collision-free across (day, category, page):
\* every page staged goes to a path that no file of the staging area has,
\* so every fragment there stays as it is and one file is added; the files
\* of the staging area have one name each, which is the name of their own
\* (day, category, page).
C28_NamesCollisionFree ==
    /\ [][StagingStep =>
             /\ frags \subseteq frags'
             /\ Cardinality(frags') = Cardinality(frags) + 1
             /\ \A f \in frags :
                    f.name # PartName(day, PUBLICATION_TYPES[ci],
                                      page_idx + 1)]_vars
    /\ [](\A f, g \in frags :
             (f.name = g.name) <=>
                 (f.day = g.day /\ f.cat = g.cat /\ f.idx = g.idx))

\* Fragments of two categories with the same page index lie side by side
\* with a fragment of the same category and page index of another day.
C28_Witness ==
    \E f, g, h \in frags :
        /\ f.day = g.day /\ f.cat # g.cat /\ f.idx = g.idx
        /\ h.day # g.day /\ h.cat = g.cat /\ h.idx = g.idx

\* ------------------------------------------------------------------ C26
\* How many times record r stands in the sequence recs.
CountIn(r, recs) == Cardinality({i \in 1..Len(recs) : recs[i] = r})

\* How many times record r is staged in the fragments S.
CountStaged(r, S) ==
    Cardinality(UNION {{<<f.name, i>> : i \in {j \in 1..Len(f.recs) :
                                                 f.recs[j] = r}} : f \in S})

\* The records staged in the fragments S.
RecordsOf(S) == UNION {Range(f.recs) : f \in S}

LiveStep == pc' \notin {"dead", "start"} /\ pc # "start"

\* C27: ordering is strict and total.  The days are taken in ascending order
\* over the inclusive range; the first request of a day comes right after
\* the cleanup of the day, for the first category; the categories follow
\* each other in the fixed order, the next one starting (at page 0) when
\* the fetch of the one before has returned; merge starts after the fetch
\* of the last category, once for the day, and the next day (or the end of
\* the run) comes only after a skip or after merge has returned.
C27_StrictOrder ==
    /\ [][/\ (pc = "start" /\ pc' = "check_day") =>
                 day' = StartDate(args, today)
          /\ (LiveStep /\ day' # day) => day' = day + 1 /\ day' <= end_date
          /\ (LiveStep /\ pc' = "done") => day = end_date
          /\ (LiveStep /\ pc' = "request"
                /\ pc \notin {"request", "response"}) =>
                 /\ pc = "cleanup" /\ ci' = 1 /\ day' = day
                 /\ DayParts(frags', day) = {}
          /\ (LiveStep /\ pc' = "request" /\ ci' # ci) =>
                 /\ pc = "response" /\ ci' = ci + 1 /\ day' = day
                 /\ page_idx' = 0 /\ last_numero' = 0
          /\ (LiveStep /\ pc' = "merge" /\ pc # "merge") =>
                 /\ pc = "response" /\ ci = NumCats /\ day' = day
                 /\ mergeCalls[day] = 0
          /\ (LiveStep /\ pc # "check_day"
                /\ (day' # day \/ pc' = "done")) =>
                 /\ pc \in {"merge", "merge_unlink"}
                 /\ mergeCalls'[day] = 1]_vars
    /\ [](pc \in {"request", "response"} =>
             /\ day \notin skipped
             /\ fetched = {PUBLICATION_TYPES[i] : i \in 1..ci})

\* A first run has gone through all the days of the range, skipping none.
C27_Witness ==
    /\ pc = "done" /\ run = 1
    /\ skipped = {}
    /\ requested = Days
    /\ \A d \in Days : mergeCalls[d] = 1

\* ------------------------------------------------------------------ C25
\* Fragment f comes before fragment g in page order: the categories in
\* their fixed order, the pages of a category by ascending page index.
PageBefore(f, g) ==
    \/ CatRank(f.cat) < CatRank(g.cat)
    \/ f.cat = g.cat /\ f.idx < g.idx

\* Record r comes before record q: the categories in their fixed order,
\* the records of a category by ascending sequence number.
RecordBefore(r, q) ==
    \/ CatRank(r.cat) < CatRank(q.cat)
    \/ r.cat = q.cat /\ r.num < q.num

\* C25: merge concatenates the fragments of the day in page order, for any
\* number of pages staged for a category: the fragments are taken by
\* ascending page index within a category, the categories in their fixed
\* order, and so are the records written to the DayArtifact.
C25_MergedInPageOrder ==
    pc \in {"merge_write", "merge_unlink"} =>
        /\ \A i \in 1..(Len(parts) - 1) : PageBefore(parts[i], parts[i + 1])
        /\ \A i \in 1..(Len(artifact[day].recs) - 1) :
               RecordBefore(artifact[day].recs[i], artifact[day].recs[i + 1])

\* ------------------------------------------------------------------ C29
\* The registre values of a record in their own order: the value itself,
\* or the elements of the list.
CandidateList(record) ==
    IF record.registre.t = "list" THEN record.registre.l
    ELSE <<record.registre>>

\* Candidate number i of the record names an identifier of the registry.
IsKnown(record, i, registry) ==
    /\ CandidateList(record)[i].t = "str"
    /\ StripNonDigits(CandidateList(record)[i].s) \in DOMAIN registry

\* The identifier of the first candidate of the record, in the record's own
\* order, that the registry knows.
FirstMatching(record, registry) ==
    LET first == CHOOSE i \in 1..Len(CandidateList(record)) :
                     /\ IsKnown(record, i, registry)
                     /\ \A j \in 1..(i - 1) : ~IsKnown(record, j, registry)
    IN  StripNonDigits(CandidateList(record)[first].s)

\* C29: every record a step writes to a FilteredDayArtifact carries the tag
\* with its fixed sentinel and the three attribute values of the registry
\* entry of the first matching identifier in the record's own candidate
\* order.
C29_EnrichedFromFirstMatch ==
    [][\A d \in FilterDays :
          \A e \in Range(filtered'[d].recs) \ Range(filtered[d].recs) :
              LET entry == RunInfo[FirstMatching(Pool[e.id], RunInfo)]
              IN  /\ e.topage_DDJC = "oui"
                  /\ e.MATRICULE_PICRIS_CCPMA = entry.MATRICULE_PICRIS_CCPMA
                  /\ e.MATRICULE_PICRIS_CPCEA = entry.MATRICULE_PICRIS_CPCEA
                  /\ e.MATRICULE_PICRIS_AGRI = entry.MATRICULE_PICRIS_AGRI]_vars

\* A FilteredDayArtifact holds the record whose candidates name two
\* identifiers of the registry, with the attributes of the one that comes
\* first in the record though later in the registry file.
C29_Witness ==
    \E d \in FilterDays :
        \E i \in 1..Len(filtered[d].recs) :
            /\ filtered[d].recs[i].id = 2
            /\ filtered[d].recs[i].MATRICULE_PICRIS_CCPMA = <<"C", "3">>
            /\ filtered[d].recs[i].MATRICULE_PICRIS_CPCEA = <<>>

\* ------------------------------------------------------------------ C30
\* The value the string s is the JSON text of, when there is one.
Decodes(s) == \E w \in JsonValues : Dumps(w) = s

RECURSIVE TextOf(_)
\* The text of a value: of an object the text of all its values, of a list
\* the text of all its elements, of a string the string and, when it parses
\* as JSON, the text of the parsed value; nothing of anything else.
TextOf(v) ==
    CASE v.t \in {"dict", "list"} ->
             Join([i \in 1..Len(v.l) |-> TextOf(v.l[i])], <<>>)
      [] v.t = "str" ->
             <<v.s>> \o (IF Decodes(v.s)
                         THEN TextOf(CHOOSE w \in JsonValues : Dumps(w) = v.s)
                         ELSE <<>>)
      [] OTHER -> <<>>

\* C30: the recursive text collector returns the text of the value given:
\* a number, a boolean and null give nothing, a string comes first in what
\* it gives, and what a string that does not parse gives is the string
\* alone.  It terminates: every string found by decoding a string is
\* shorter than that string.
C30_CollectsAllText ==
    verdict.done =>
        /\ verdict.texts = TextOf(probe.value)
        /\ probe.value.t \in {"num", "bool", "null"} => verdict.texts = <<>>
        /\ probe.value.t = "str" =>
              /\ verdict.texts[1] = probe.value.s
              /\ ~Decodes(probe.value.s) => Len(verdict.texts) = 1
              /\ \A i \in 2..Len(verdict.texts) :
                     Len(verdict.texts[i]) < Len(probe.value.s)

\* The text of a string that holds the JSON text of a string that holds the
\* JSON text of a list has been collected: the string, the string inside it,
\* and the string of the list.
C30_Witness ==
    /\ verdict.done
    /\ LET word == JStr(<<"r", "a", "d", "i", "a", "t", "i", "o", "n">>)
           inner == JList(<<word, JNum(<<"1", "2", "3">>)>>)
       IN  /\ probe.value = JStr(Dumps(JStr(Dumps(inner))))
           /\ verdict.texts = <<Dumps(JStr(Dumps(inner))), Dumps(inner), word.s>>

\* ------------------------------------------------------------------ C35
\* C35: the retry budget is per page: the step that stages a full page and
\* goes on with the same (day, category) puts the attempt counter back to 0,
\* whatever it was; the first request of every page is attempt 0, and the
\* pause after a failure of attempt 0 is backoffBase.
C35_BudgetPerPage ==
    /\ [][(StagingStep /\ SameFetch) =>
             /\ Len(resp.recs) = PerPage
             /\ page_idx' = page_idx + 1
             /\ attempt' = 0 /\ pc' = "request"]_vars
    /\ [][(pc' = "request" /\ page_idx' # page_idx /\ pc' # "dead") =>
             attempt' = 0]_vars
    /\ [][(FailedAttempt /\ attempt = 0) => slept' = BackoffBase]_vars

\* After a staged full page, the first request for the next page has failed,
\* the pause of the base was made and the second attempt is due.
C35_Witness ==
    /\ pc = "request" /\ page_idx > 0
    /\ attempt = 1 /\ slept = BackoffBase


\* ------------------------------------------------------------------ C33
\* The fragments of one (day, category).
CatParts(fs, d, c) == {f \in fs : f.day = d /\ f.cat = c}

\* The records of the fragments S, page after page.
RECURSIVE InPageOrder(_)
InPageOrder(S) ==
    IF S = {} THEN <<>>
    ELSE LET f == CHOOSE g \in S : \A h \in S : g.idx <= h.idx
         IN  f.recs \o InPageOrder(S \ {f})

\* The announcements the API holds for the (day, category), in ascending
\* numeroannonce, as run r receives them.
Upstream(d, c, r) == ApiPage(d, c, 0, UpstreamSize(d, c), r)

\* _fetch_day returns on a 2xx answer (not by abandonment).
FetchReturns ==
    /\ pc = "response" /\ resp.kind = "ok"
    /\ pc' # "dead"
    /\ ci' # ci \/ pc' = "merge"

\* C33: a fetch of a (day, category) that returns without having exhausted
\* the retries of a page has staged every upstream record exactly once, in
\* ascending sequence order across the fragments, in fragments numbered
\* 1, 2, ...; when the record count is an exact multiple of per_page the
\* last request returned zero records after count / per_page full pages and
\* staged nothing: no fragment is empty.
C33_FetchComplete ==
    [][FetchReturns =>
          LET c == PUBLICATION_TYPES[ci]
              S == CatParts(frags', day, c)
              n == UpstreamSize(day, c)
          IN  /\ InPageOrder(S) = Upstream(day, c, run)
              /\ {f.idx : f \in S} = 1..Cardinality(S)
              /\ \A f \in S : f.recs # <<>>
              /\ (n % PerPage = 0) =>
                     /\ resp.recs = <<>>
                     /\ frags' = frags
                     /\ page_idx = n \div PerPage
                     /\ Cardinality(S) = n \div PerPage]_vars

\* The fetch of a category of exactly per_page records has returned after
\* one full page and an empty one, the category before it having been
\* staged in a full page and a short one.
C33_Witness ==
    /\ pc = "request" /\ day = 1 /\ ci = 3 /\ abandoned = {}
    /\ UpstreamSize(1, "B") = PerPage
    /\ \E f \in frags : CatParts(frags, 1, "B") = {f} /\ Len(f.recs) = PerPage
    /\ Cardinality(CatParts(frags, 1, "A")) = 2


\* ------------------------------------------------------------------ C36
\* The days of the window the run was asked for, the end brought back to
\* yesterday.
Window == {d \in Days : StartDate(args, today) <= d /\ d <= AdjustedEnd}

DayEnds ==
    /\ pc \in {"merge", "merge_unlink"}
    /\ pc' \in {"check_day", "done"}

\* The DayArtifact of day d exists and no merge is writing it.
Settled(d) == artifact[d].exists /\ ~WritingArtifact(d)

\* How many announcements the API holds for day d.
RECURSIVE UpstreamOfDay(_, _)
UpstreamOfDay(d, i) ==
    IF i = 0 THEN 0
    ELSE UpstreamSize(d, PUBLICATION_TYPES[i]) + UpstreamOfDay(d, i - 1)

\* C37: a day with abandoned categories goes on to its merge and ends with a
\* DayArtifact, which is the empty file when every category was abandoned
\* with nothing staged; and from the moment the DayArtifact of a day exists
\* and is written, every run that reaches the day skips it, no request is
\* issued for it and its DayArtifact stays as it is: what it lacks is never
\* fetched.
C37_AbandonedDaySkippedLater ==
    /\ [](abandoned # {} =>
             pc \in {"request", "response", "merge", "merge_write",
                     "merge_unlink"})
    /\ [][(DayEnds /\ abandoned # {}) =>
             /\ artifact'[day].exists
             /\ (abandoned = AllCats /\ {f \in keptFrags : f.day = day} = {})
                    => artifact'[day] = File(<<>>)]_vars
    /\ [][\A d \in Days :
             Settled(d) =>
                 /\ artifact'[d] = artifact[d]
                 /\ (pc = "request" /\ pc' = "response") => day # d
                 /\ (pc = "check_day" /\ day = d /\ pc' # "dead") =>
                        /\ d \in skipped'
                        /\ pc' \in {"check_day", "done"}]_vars

\* A later run has ended having skipped a day for which the API holds
\* announcements and whose DayArtifact is the empty file an earlier run left
\* after abandoning every category that holds some; nothing of the day is
\* staged.
C37_Witness ==
    /\ run = 2 /\ pc = "done"
    /\ 1 \in skipped
    /\ UpstreamOfDay(1, NumCats) > 0
    /\ artifact[1] = File(<<>>)
    /\ mergeCalls[1] = 1
    /\ DayParts(frags, 1) = {}


\* ------------------------------------------------------------------ C38
\* The fragments staged for days other than d (by who wrote them).
OtherDays(fs, d) == {f \in fs : f.day # d}

\* C38: _cleanup_day_parts(day) and _merge_day_parts(day) act on one day
\* only: a step of either deletes fragments of that day at most and creates
\* none, changes no DayArtifact of another day, and the files the merge
\* lists, reads and unlinks are fragments of that day, the DayArtifact it
\* writes holding records of that day's fragments only; the cleanup changes
\* no DayArtifact at all.
C38_OneDayOnly ==
    /\ [][(pc = "cleanup" /\ pc' # "dead") =>
             /\ artifact' = artifact
             /\ frags' \subseteq frags
             /\ OtherDays(frags', day) = OtherDays(frags, day)]_vars
    /\ [][(pc \in {"merge", "merge_write", "merge_unlink"} /\ pc' # "dead")
             => /\ \A d \in Days \ {day} : artifact'[d] = artifact[d]
                /\ frags' \subseteq frags
                /\ OtherDays(frags', day) = OtherDays(frags, day)
                /\ \A i \in 1..Len(parts') : parts'[i].day = day
                /\ IF pc = "merge_unlink"
                   THEN artifact' = artifact
                   ELSE Range(artifact'[day].recs) \subseteq
                            RecordsOf(frags \ OtherDays(frags, day))]_vars

\* A run has ended after cleaning, fetching and merging day 3 while
\* fragments of day 1, which it skipped, lay in the staging directory: they
\* are still there, and the DayArtifact of day 3 holds records.
C38_Witness ==
    /\ pc = "done" /\ run = 2
    /\ 1 \in skipped
    /\ 3 \in requested
    /\ artifact[3].recs # <<>>
    /\ OtherDays(frags, 1) = {}
    /\ frags # {}


\* ------------------------------------------------------------------ C34
\* _fetch_day has been called for the c-th publicationavis of the day and
\* has not returned.
Fetching(c) == pc \in {"request", "response"} /\ ci = c

\* C34: every fetch of a (day, category) eventually returns, whatever the
\* answers (pages, errors, malformed bodies, 429) it meets.  (The day only
\* changes after the merge, so the fetch of a category number that is no
\* longer running has returned.)
C34_FetchTerminates ==
    \A c \in 1..NumCats : Fetching(c) ~> ~Fetching(c)

\* The fetch of the first category has returned by abandonment after a
\* staged page and 429 answers, and the next category is being fetched.
C34_Witness ==
    /\ pc = "request" /\ day = 1 /\ ci = 2
    /\ PUBLICATION_TYPES[1] \in abandoned
    /\ slept = TooManyRequestsTimeout
    /\ CatParts(frags, 1, PUBLICATION_TYPES[1]) # {}


\* ------------------------------------------------------------------ C32
\* The identifier of a row: what the file gives in its first column.
Identifier(row) == IF row.CODE_SIREN = RestVal THEN <<>> ELSE row.CODE_SIREN

\* The rows of the file whose identifier has nine digits once its other
\* characters are taken out.
NineDigitRows ==
    {i \in 1..Len(probe.csv.rows) :
         Len(StripNonDigits(Identifier(probe.csv.rows[i]))) = 9}

\* C32 (the claim as stated): the registry loaded from a file that can be
\* read has exactly one entry for each identifier, stripped of its
\* non-digit characters, of a row that has nine digits: those rows are kept,
\* every other row is discarded.
C32_KeepsNineDigitRows ==
    (verdict.done /\ probe.csv.state = "ok") =>
        DOMAIN verdict.registry =
            {StripNonDigits(Identifier(probe.csv.rows[i])) :
                 i \in NineDigitRows}

\* Every row of the file has its four columns.
FullRows ==
    \A i \in 1..Len(probe.csv.rows) :
        RestVal \notin InfoColumns(probe.csv.rows[i])
            \cup {probe.csv.rows[i].CODE_SIREN}

\* The same for the files whose rows all have their four columns.
C32_FullRowsKept == FullRows => C32_KeepsNineDigitRows


\* ------------------------------------------------------------ C31, C39
\* The lines of the input file the run is at.
CurrentLines == daily[input_files[fi]].recs

\* The run reads the input file it is at (it does not pass it).
ReadsFile == fpc = "file" /\ input_files[fi] \notin existing

\* The records among the lines are read and filtered by the step: the day
\* of each of them, unless it was in existing, gets its FilteredDayArtifact,
\* which holds the record as kept when it passes both matchings, and holds
\* nothing but such records of the file.
RecordsFiltered(lines) ==
    /\ \A i \in 1..Len(lines) :
          lines[i] \in PoolIds =>
              LET d == Dated(Pool[lines[i]])
              IN  (d # NoDay /\ d \notin existing) =>
                      /\ filtered'[d].exists
                      /\ Keeps(Pool[lines[i]], RunInfo, RunKeywords) =>
                             Enrich(lines[i], RunInfo)
                                 \in Range(filtered'[d].recs)
    /\ \A d \in FilterDays \ existing :
          \A r \in Range(filtered'[d].recs) :
              /\ r.id \in Range(lines)
              /\ Dated(Pool[r.id]) = d
              /\ Keeps(Pool[r.id], RunInfo, RunKeywords)

\* C31: a line that does not parse as JSON is skipped and the run goes on:
\* when the file read has such lines, its other lines being records, the
\* reading does not fail, every record of the file is read and filtered and
\* emitted when it matches, and the run passes to the next file or ends.
C31_UnparsableLineSkipped ==
    [][(/\ ReadsFile
        /\ NotJsonLine \in Range(CurrentLines)
        /\ Range(CurrentLines) \subseteq PoolIds \cup {NotJsonLine}) =>
           /\ input_files[fi] \in processed'
           /\ failed' = failed
           /\ fpc' \in {"file", "done"}
           /\ RecordsFiltered(CurrentLines)]_vars

\* The DayArtifact of day 1 is a line that does not parse followed by a
\* record that passes both matchings: the file was read and the record is
\* in the FilteredDayArtifact of day 1.
C31_Witness ==
    /\ daily[1].recs = <<NotJsonLine, 1>>
    /\ 1 \in processed
    /\ filtered[1] = File(<<Enrich(1, RunInfo)>>)

\* C39 (the claim as stated): a line that is valid JSON but not an object
\* affects that line at most: the records of the file are still filtered
\* and emitted, and the FilteredDayArtifacts of their days are written.
C39_NonObjectLineIsLocal ==
    [][(ReadsFile /\ ListLine \in Range(CurrentLines)) =>
           /\ fpc' \in {"file", "done"}
           /\ RecordsFiltered(CurrentLines)]_vars


\* ------------------------------------------------------------------ C40
\* The living process is inside the "with target.open('w')" block of the
\* FilteredDayArtifact of day d.
WritingFiltered(d) == fpc = "writing" /\ WriteDay = d

\* The records the filter emits for day d: those of the DayArtifact of the
\* day that pass both matchings (under KillSpec a record is stored in the
\* DayArtifact of its own day).
EmittedFor(d) ==
    IF daily[d].exists
    THEN KeptPerDay(LoadBodaccJsonl(daily[d].recs), d, RunInfo, RunKeywords)
    ELSE <<>>

\* C40 (the claim as stated): in every reachable state of the filter stage,
\* kills and restarts included, a FilteredDayArtifact that exists and is
\* not being written by the living process holds all the records emitted
\* for its day, never a part of them.
C40_FilteredComplete ==
    \A d \in FilterDays :
        (filtered[d].exists /\ ~WritingFiltered(d)) =>
            filtered[d].recs = EmittedFor(d)

=============================================================================
